---------------------------- MODULE Spec2Model ----------------------------
(***************************************************************************)
(* A model of the agentic task CLI: the command handlers of runner.ts over *)
(* the JSON store, the natural-language extractor                          *)
(* (extractMetadataFromTitle), the priority table (applyPriority) and the  *)
(* date/duration engine (parseDateInput, formatForDisplay, applySnooze,    *)
(* parseDuration, summarizeNextOccurrences).                               *)
(*                                                                         *)
(* Strings are sequences of one-character strings, so that trimming, case  *)
(* folding, the regular expressions and date formatting/parsing are        *)
(* computed character by character as the code computes them.  An optional *)
(* string (string | undefined) is a record [has, v]; a Date is a record     *)
(* [valid, y, m, d] (time of day and zone are dropped: every date the code  *)
(* builds is a local midnight and is only ever rendered as a date).        *)
(***************************************************************************)
EXTENDS Integers, Sequences, FiniteSets, TLC

(***************************************************************************)
(* Characters and JavaScript string primitives                             *)
(***************************************************************************)
LowerLetters == <<"a","b","c","d","e","f","g","h","i","j","k","l","m",
                  "n","o","p","q","r","s","t","u","v","w","x","y","z">>

UpperLetters == <<"A","B","C","D","E","F","G","H","I","J","K","L","M",
                  "N","O","P","Q","R","S","T","U","V","W","X","Y","Z">>

DigitChars == <<"0","1","2","3","4","5","6","7","8","9">>

LowerSet == {LowerLetters[i] : i \in 1..26}

UpperSet == {UpperLetters[i] : i \in 1..26}

DigitSet == {DigitChars[i] : i \in 1..10}

\* \d
IsDigit(c) == c \in DigitSet

\* \w
IsWordChar(c) == c \in DigitSet \/ c \in LowerSet \/ c \in UpperSet \/ c = "_"

\* \s (the model's alphabet holds the space and the tab)
IsSpace(c) == c \in {" ", "\t"}

toLowerChar(c) ==
  IF c \in UpperSet
    THEN LowerLetters[CHOOSE i \in 1..26 : UpperLetters[i] = c]
    ELSE c

\* String.prototype.toLowerCase
toLowerCase(s) == [i \in 1..Len(s) |-> toLowerChar(s[i])]

MinOf(S) == CHOOSE x \in S : \A y \in S : x <= y

MaxOf(S) == CHOOSE x \in S : \A y \in S : x >= y

\* String.prototype.trimStart
trimStart(s) ==
  LET keep == {i \in 1..Len(s) : ~IsSpace(s[i])}
  IN  IF keep = {} THEN <<>> ELSE SubSeq(s, MinOf(keep), Len(s))

\* String.prototype.trimEnd
trimEnd(s) ==
  LET keep == {i \in 1..Len(s) : ~IsSpace(s[i])}
  IN  IF keep = {} THEN <<>> ELSE SubSeq(s, 1, MaxOf(keep))

\* String.prototype.trim
trim(s) == trimEnd(trimStart(s))

\* s.slice(from) with a 0-based index, as JavaScript counts
sliceFrom(s, from) == SubSeq(s, from + 1, Len(s))

\* s.slice(0, to) with a 0-based exclusive end
sliceTo(s, to) == SubSeq(s, 1, to)

\* does pat occur in s at the 1-based position i
OccursAt(s, pat, i) ==
  /\ i >= 1
  /\ i + Len(pat) - 1 <= Len(s)
  /\ \A k \in 1..Len(pat) : s[i + k - 1] = pat[k]

\* s.indexOf(pat), 1-based; 0 when pat does not occur
indexOf(s, pat) ==
  LET at == {i \in 1..(Len(s) + 1) : OccursAt(s, pat, i)}
  IN  IF at = {} THEN 0 ELSE MinOf(at)

\* a local binding "const v = ...; F(v)": the value is computed once
Let(v, F(_)) == F(v)

\* s.replace(pat, "") with a string pattern: the first occurrence is removed
replaceFirstWithEmpty(s, pat) ==
  Let(indexOf(s, pat), LAMBDA i :
    IF i = 0 THEN s
    ELSE SubSeq(s, 1, i - 1) \o SubSeq(s, i + Len(pat), Len(s)))

\* s.replace(/\s{2,}/g, " "): every maximal run of two or more whitespace
\* characters becomes one space; a single whitespace character is kept
RECURSIVE collapseFrom(_, _)
collapseFrom(s, i) ==
  IF i > Len(s) THEN <<>>
  ELSE IF IsSpace(s[i]) /\ i < Len(s) /\ IsSpace(s[i + 1])
    THEN LET rest == {j \in i..Len(s) : ~IsSpace(s[j])}
             next == IF rest = {} THEN Len(s) + 1 ELSE MinOf(rest)
         IN  <<" ">> \o collapseFrom(s, next)
    ELSE <<s[i]>> \o collapseFrom(s, i + 1)

\* a replace that leaves every run of whitespace as it is
collapseSpaces_kept(s) == s

collapseSpaces(s) == collapseFrom(s, 1)

\* the value of a digit character
DigitVal(c) == (CHOOSE i \in 1..10 : DigitChars[i] = c) - 1

\* Number.parseInt of a non-empty digit string, base 10
RECURSIVE parseDigits(_)
parseDigits(s) ==
  IF Len(s) = 0 THEN 0
  ELSE parseDigits(SubSeq(s, 1, Len(s) - 1)) * 10 + DigitVal(s[Len(s)])

\* Number.prototype.toString of a natural number
RECURSIVE natToString(_)
natToString(n) ==
  IF n < 10 THEN <<DigitChars[n + 1]>>
  ELSE natToString(n \div 10) \o <<DigitChars[(n % 10) + 1]>>

\* optional strings: string | undefined
Undefined == [has |-> FALSE, v |-> <<>>]

Some(s) == [has |-> TRUE, v |-> s]

\* JavaScript truthiness of an optional string: undefined and "" are falsy
Truthy(o) == o.has /\ o.v # <<>>

(***************************************************************************)
(* Dates: the ECMAScript Date and the date-fns functions the code calls    *)
(***************************************************************************)
\* new Date(NaN)
InvalidDate == [valid |-> FALSE, y |-> 0, m |-> 0, d |-> 0]

IsLeap(y) == (y % 4 = 0 /\ y % 100 # 0) \/ y % 400 = 0

DaysInMonth(y, m) ==
  IF m = 2 THEN (IF IsLeap(y) THEN 29 ELSE 28)
  ELSE IF m \in {4, 6, 9, 11} THEN 30 ELSE 31

\* days from 1970-01-01 to y-m-d in the proleptic Gregorian calendar
DayNumber(y, m, d) ==
  LET yy  == IF m <= 2 THEN y - 1 ELSE y
      era == yy \div 400
      yoe == yy - era * 400
      mp  == IF m > 2 THEN m - 3 ELSE m + 9
      doy == (153 * mp + 2) \div 5 + d - 1
      doe == yoe * 365 + yoe \div 4 - yoe \div 100 + doy
  IN  era * 146097 + doe - 719468

\* the largest time value of an ECMAScript Date, in days: 8.64e15 ms
MaxTimeDays == 100000000

\* a Date set to y-m-d: outside the time range the Date is invalid (NaN)
MakeDate(y, m, d) ==
  Let(DayNumber(y, m, d), LAMBDA n :
    IF n > MaxTimeDays \/ n < -MaxTimeDays THEN InvalidDate
    ELSE [valid |-> TRUE, y |-> y, m |-> m, d |-> d])

\* the calendar date that is n days from 1970-01-01
FromDayNumber(n) ==
  Let((n + 719468) \div 146097, LAMBDA era :
  Let(n + 719468 - era * 146097, LAMBDA doe :
  Let((doe - doe \div 1460 + doe \div 36524 - doe \div 146096) \div 365,
      LAMBDA yoe :
  Let(doe - (365 * yoe + yoe \div 4 - yoe \div 100), LAMBDA doy :
  Let((5 * doy + 2) \div 153, LAMBDA mp :
  Let(IF mp < 10 THEN mp + 3 ELSE mp - 9, LAMBDA m :
    [valid |-> TRUE,
     y |-> yoe + era * 400 + (IF m <= 2 THEN 1 ELSE 0),
     m |-> m,
     d |-> doy - (153 * mp + 2) \div 5 + 1]))))))

\* date-fns isValid
isValid(date) == date.valid

\* date-fns addMonths: the day of the month is clamped to the target month's
\* last day
addMonths(date, amount) ==
  IF ~date.valid THEN InvalidDate
  ELSE Let(date.y * 12 + (date.m - 1) + amount, LAMBDA total :
       Let(DaysInMonth(total \div 12, (total % 12) + 1), LAMBDA last :
         MakeDate(total \div 12, (total % 12) + 1,
                  IF date.d >= last THEN last ELSE date.d)))

\* date-fns addDays
addDays(date, amount) ==
  IF ~date.valid THEN InvalidDate
  ELSE Let(DayNumber(date.y, date.m, date.d) + amount, LAMBDA n :
         IF n > MaxTimeDays \/ n < -MaxTimeDays THEN InvalidDate
         ELSE FromDayNumber(n))

\* a Duration field: number | undefined
NoAmount == [has |-> FALSE, n |-> 0]

Amount(n) == [has |-> TRUE, n |-> n]

\* duration.x ?? 0, and the "duration.x ? toInteger(duration.x) : 0" of add
AmountOrZero(a) == IF a.has THEN a.n ELSE 0

EmptyDuration ==
  [days |-> NoAmount, weeks |-> NoAmount, months |-> NoAmount, years |-> NoAmount]

\* date-fns add: years and months first (one addMonths), then weeks and days
\* (one addDays)
add(date, duration) ==
  LET years  == AmountOrZero(duration.years)
      months == AmountOrZero(duration.months)
      weeks  == AmountOrZero(duration.weeks)
      days   == AmountOrZero(duration.days)
  IN  Let(IF months # 0 \/ years # 0
            THEN addMonths(date, months + years * 12) ELSE date,
          LAMBDA dateWithMonths :
            IF days # 0 \/ weeks # 0
              THEN addDays(dateWithMonths, days + weeks * 7)
              ELSE dateWithMonths)

\* /^\d{4}-\d{2}-\d{2}/ tested at the start of s
StartsWithIsoDate(s) ==
  /\ Len(s) >= 10
  /\ \A i \in {1, 2, 3, 4, 6, 7, 9, 10} : IsDigit(s[i])
  /\ s[5] = "-"
  /\ s[8] = "-"

\* the exact string shape YYYY-MM-DD
IsCanonicalShape(s) == Len(s) = 10 /\ StartsWithIsoDate(s)

\* date-fns parseISO on the strings of the model: a ten-character
\* YYYY-MM-DD with a month 01..12 and a day that month has is that date,
\* every other string of the model is an Invalid Date
parseISO(s) ==
  IF ~IsCanonicalShape(s) THEN InvalidDate
  ELSE Let(parseDigits(SubSeq(s, 1, 4)), LAMBDA y :
       Let(parseDigits(SubSeq(s, 6, 7)), LAMBDA m :
       Let(parseDigits(SubSeq(s, 9, 10)), LAMBDA d :
         IF m >= 1 /\ m <= 12 /\ d >= 1 /\ d <= DaysInMonth(y, m)
           THEN MakeDate(y, m, d) ELSE InvalidDate)))

\* String.prototype.padStart(targetLength, "0")
RECURSIVE padStartZero(_, _)
padStartZero(s, targetLength) ==
  IF Len(s) >= targetLength THEN s ELSE padStartZero(<<"0">> \o s, targetLength)

\* date-fns addLeadingZeros
addLeadingZeros(number, targetLength) ==
  LET abs == IF number < 0 THEN -number ELSE number
  IN  (IF number < 0 THEN <<"-">> ELSE <<>>)
        \o padStartZero(natToString(abs), targetLength)

\* results of the string-valued functions that may throw
Returned(s) == [err |-> "none", val |-> s]

Thrown(e) == [err |-> e, val |-> <<>>]

\* date-fns formatISO(date, { representation: "date" }): throws a
\* RangeError on an Invalid Date
formatISO(date) ==
  IF ~date.valid THEN Thrown("RangeError")
  ELSE Returned(addLeadingZeros(date.y, 4) \o <<"-">>
                  \o addLeadingZeros(date.m, 2) \o <<"-">>
                  \o addLeadingZeros(date.d, 2))

(***************************************************************************)
(* date.ts: parseDuration, applySnooze, formatForDisplay,                  *)
(* summarizeNextOccurrences                                                *)
(***************************************************************************)
SignChars == {"+", "-"}

UnitLetters == {"d", "w", "m", "y"}

\* the end of the maximal run of digits that starts at i (i - 1 when s[i] is
\* no digit)
DigitRunEnd(s, i) ==
  LET stop == {j \in i..Len(s) : ~IsDigit(s[j])}
  IN  IF stop = {} THEN Len(s) ELSE MinOf(stop) - 1

\* /([+-]?\d+)([dwmy])/ without the i flag, tried at position i
DurationMatchEnd_caseSensitive(s, i) ==
  Let(IF s[i] \in SignChars THEN i + 1 ELSE i, LAMBDA ds :
  Let(DigitRunEnd(s, ds), LAMBDA de :
    IF ds <= Len(s) /\ de >= ds /\ de + 1 <= Len(s)
       /\ s[de + 1] \in UnitLetters
      THEN de + 1 ELSE 0))

\* /([+-]?\d+)([dwmy])/i tried at position i: the position of the unit letter
\* of the match, or 0.  The digits are followed by a letter, so only the
\* maximal run of digits can match.
DurationMatchEnd(s, i) ==
  Let(IF s[i] \in SignChars THEN i + 1 ELSE i, LAMBDA ds :
  Let(DigitRunEnd(s, ds), LAMBDA de :
    IF ds <= Len(s) /\ de >= ds /\ de + 1 <= Len(s)
       /\ toLowerChar(s[de + 1]) \in UnitLetters
      THEN de + 1 ELSE 0))

\* Number.parseInt(match[1], 10) of an optionally signed digit string
parseSignedInt(s) ==
  IF s[1] = "-" THEN 0 - parseDigits(SubSeq(s, 2, Len(s)))
  ELSE IF s[1] = "+" THEN parseDigits(SubSeq(s, 2, Len(s)))
  ELSE parseDigits(s)

\* "duration.x = value": the last token of a unit replaces the earlier ones
AddAmount_lastWins(a, value) == Amount(value)

\* duration.x = (duration.x ?? 0) + value
AddAmount(a, value) == Amount(AmountOrZero(a) + value)

\* the while loop of parseDuration: pattern.exec from lastIndex = from - 1,
\* acc holds the duration and the count of consumed characters
RECURSIVE durationLoop(_, _, _)
durationLoop(s, from, acc) ==
  Let({i \in from..Len(s) : DurationMatchEnd(s, i) # 0}, LAMBDA starts :
    IF starts = {} THEN acc
    ELSE Let(MinOf(starts), LAMBDA i :
         Let(DurationMatchEnd(s, i), LAMBDA e :
         Let(parseSignedInt(SubSeq(s, i, e - 1)), LAMBDA value :
         Let(toLowerChar(s[e]), LAMBDA unit :
           durationLoop(s, e + 1,
             [duration |->
                CASE unit = "d" ->
                       [acc.duration EXCEPT !.days = AddAmount(@, value)]
                  [] unit = "w" ->
                       [acc.duration EXCEPT !.weeks = AddAmount(@, value)]
                  [] unit = "m" ->
                       [acc.duration EXCEPT !.months = AddAmount(@, value)]
                  [] unit = "y" ->
                       [acc.duration EXCEPT !.years = AddAmount(@, value)]
                  [] OTHER -> acc.duration,
              consumed |-> acc.consumed + (e - i + 1)]))))))

\* parseDuration(input): [err, val], err = "InvalidDuration" when nothing
\* was consumed
parseDuration(input) ==
  Let(durationLoop(input, 1, [duration |-> EmptyDuration, consumed |-> 0]),
      LAMBDA r :
        IF r.consumed = 0
          THEN [err |-> "InvalidDuration", val |-> EmptyDuration]
          ELSE [err |-> "none", val |-> r.duration])

\* applySnooze with the duration parsed before the date is looked at
applySnooze_durationFirst(date, delta, now) ==
  Let(parseDuration(delta), LAMBDA amount :
    IF amount.err # "none" THEN Thrown(amount.err)
    ELSE Let(IF Truthy(date) THEN parseISO(date.v) ELSE now, LAMBDA parsed :
           IF ~isValid(parsed) THEN Thrown("InvalidDate")
           ELSE formatISO(add(parsed, amount.val))))

\* applySnooze(date, delta); now is the value of new Date()
applySnooze(date, delta, now) ==
  Let(IF Truthy(date) THEN parseISO(date.v) ELSE now, LAMBDA parsed :
    IF ~isValid(parsed) THEN Thrown("InvalidDate")
    ELSE Let(parseDuration(delta), LAMBDA amount :
           IF amount.err # "none" THEN Thrown(amount.err)
           ELSE formatISO(add(parsed, amount.val))))

\* formatForDisplay with "input === undefined" in place of "!input"
formatForDisplay_absentOnly(input) ==
  IF ~input.has THEN Returned(<<"-">>)
  ELSE Let(parseISO(input.v), LAMBDA parsed :
         IF ~isValid(parsed) THEN Returned(input.v)
         ELSE formatISO(parsed))

\* formatForDisplay(input)
formatForDisplay(input) ==
  IF ~Truthy(input) THEN Returned(<<"-">>)
  ELSE Let(parseISO(input.v), LAMBDA parsed :
         IF ~isValid(parsed) THEN Returned(input.v)
         ELSE formatISO(parsed))

W_day == <<"d","a","y">>

W_week == <<"w","e","e","k">>

W_month == <<"m","o","n","t","h">>

W_year == <<"y","e","a","r">>

RepeatUnits == {W_day, W_week, W_month, W_year}

\* repeat.match(/^(\d+)\s*(day|week|month|year)s?$/i): [matched, count, unit]
\* with unit the text of the second group as it is written in repeat
repeatMatch(repeat) ==
  Let(DigitRunEnd(repeat, 1), LAMBDA de :
  Let({j \in (de + 1)..Len(repeat) : ~IsSpace(repeat[j])}, LAMBDA nonsp :
  Let(SubSeq(repeat, IF nonsp = {} THEN Len(repeat) + 1 ELSE MinOf(nonsp),
             Len(repeat)), LAMBDA rest :
  Let(toLowerCase(rest), LAMBDA lower :
  Let({u \in RepeatUnits : lower = u \/ lower = u \o <<"s">>}, LAMBDA units :
    IF de >= 1 /\ units # {}
      THEN [matched |-> TRUE,
            count   |-> parseDigits(SubSeq(repeat, 1, de)),
            unit    |-> SubSeq(rest, 1, Len(CHOOSE u \in units : TRUE))]
      ELSE [matched |-> FALSE, count |-> 0, unit |-> <<>>])))))

\* the interval object built in the loop of summarizeNextOccurrences
repeatInterval(unit, count) ==
  [days   |-> Amount(IF unit = W_day THEN count ELSE 0),
   weeks  |-> Amount(IF unit = W_week THEN count ELSE 0),
   months |-> Amount(IF unit = W_month THEN count ELSE 0),
   years  |-> Amount(IF unit = W_year THEN count ELSE 0)]

\* the for loop of summarizeNextOccurrences: i more occurrences from cursor;
\* formatISO throws on an Invalid Date
RECURSIVE occurrencesLoop(_, _, _, _)
occurrencesLoop(cursor, interval, i, occurrences) ==
  IF i = 0 THEN [err |-> "none", val |-> occurrences]
  ELSE Let(add(cursor, interval), LAMBDA next :
       Let(formatISO(next), LAMBDA text :
         IF text.err # "none" THEN [err |-> text.err, val |-> <<>>]
         ELSE occurrencesLoop(next, interval, i - 1,
                              Append(occurrences, text.val))))

\* summarizeNextOccurrences(repeat, base): [err, val], val a list of strings
summarizeNextOccurrences(repeat, base) ==
  IF ~Truthy(repeat) \/ ~Truthy(base) THEN [err |-> "none", val |-> <<>>]
  ELSE Let(parseISO(base.v), LAMBDA parsedBase :
       Let(repeatMatch(repeat.v), LAMBDA match :
         IF ~isValid(parsedBase) THEN [err |-> "none", val |-> <<>>]
         ELSE IF ~match.matched THEN [err |-> "none", val |-> <<>>]
         ELSE occurrencesLoop(parsedBase,
                repeatInterval(match.unit, match.count), 3, <<>>)))

(***************************************************************************)
(* command-utils.ts: applyPriority, parseTags                              *)
(***************************************************************************)
P_low == <<"l","o","w">>

P_medium == <<"m","e","d","i","u","m">>

P_high == <<"h","i","g","h">>

P_urgent == <<"u","r","g","e","n","t">>

Priorities == {P_low, P_medium, P_high, P_urgent}

\* the switch of applyPriority over the trimmed, lowercased input
priorityOfNormalized(normalized) ==
  CASE normalized \in {<<"l">>, P_low} -> Returned(P_low)
    [] normalized \in {<<"m">>, <<"m","e","d">>, P_medium} -> Returned(P_medium)
    [] normalized \in {<<"h">>, <<"h","i">>, P_high, <<"p","2">>} -> Returned(P_high)
    [] normalized \in {<<"u">>, P_urgent, <<"c","r","i","t","i","c","a","l">>, <<"p","0">>, <<"p","1">>} ->
         Returned(P_urgent)
    [] normalized = <<"p","3">> -> Returned(P_medium)
    [] normalized = <<"p","4">> -> Returned(P_low)
    [] OTHER -> Thrown("InvalidPriority")

\* applyPriority without its "if (!input)" line
applyPriority_noDefault(input) ==
  priorityOfNormalized(toLowerCase(trim(input.v)))

\* applyPriority(input): [err, val]; a falsy input (undefined, null, "") is
\* "medium", an unknown word throws
applyPriority(input) ==
  IF ~Truthy(input) THEN Returned(P_medium)
  ELSE priorityOfNormalized(toLowerCase(trim(input.v)))

\* input.split(/[,\s]+/) followed by filter(Boolean): the maximal runs of
\* characters that are neither a comma nor whitespace
IsTagSeparator(c) == c = "," \/ IsSpace(c)

RECURSIVE splitTags(_, _)
splitTags(s, from) ==
  Let({i \in from..Len(s) : ~IsTagSeparator(s[i])}, LAMBDA starts :
    IF starts = {} THEN <<>>
    ELSE Let(MinOf(starts), LAMBDA i :
         Let({j \in i..Len(s) : IsTagSeparator(s[j])}, LAMBDA stop :
         Let(IF stop = {} THEN Len(s) ELSE MinOf(stop) - 1, LAMBDA e :
           <<SubSeq(s, i, e)>> \o splitTags(s, e + 1)))))

\* parseTags(input): a leading "#" is dropped, the tag is lowercased
parseTags(input) ==
  IF ~Truthy(input) THEN <<>>
  ELSE Let(splitTags(input.v, 1), LAMBDA parts :
         [k \in 1..Len(parts) |->
            toLowerCase(IF parts[k][1] = "#"
                          THEN SubSeq(parts[k], 2, Len(parts[k]))
                          ELSE parts[k])])

\* arr.filter((tag, index, arr) => arr.indexOf(tag) === index)
RECURSIVE dedupe(_)
dedupe(arr) ==
  IF Len(arr) = 0 THEN <<>>
  ELSE Let(dedupe(SubSeq(arr, 1, Len(arr) - 1)), LAMBDA front :
         IF \E k \in 1..(Len(arr) - 1) : arr[k] = arr[Len(arr)]
           THEN front ELSE Append(front, arr[Len(arr)]))

(***************************************************************************)
(* chrono-node, the external recognizer: the model knows two phrases, each *)
(* recognized case-insensitively as a whole word.  "tomorrow" is the day   *)
(* after the reference with day, month and year certain; "march" is the    *)
(* first of the March nearest to the reference with only the month certain.*)
(* The results come in the order of their position in the text.            *)
(***************************************************************************)
W_tomorrow == <<"t","o","m","o","r","r","o","w">>

W_march == <<"m","a","r","c","h">>

DatePhrases == {W_tomorrow, W_march}

\* \b before position i of s (i in 1..Len(s)+1)
WordBoundaryAt(s, i) ==
  LET before == i - 1 >= 1 /\ i - 1 <= Len(s) /\ IsWordChar(s[i - 1])
      after  == i >= 1 /\ i <= Len(s) /\ IsWordChar(s[i])
  IN  before # after

\* word is written at position i of s in any letter case, as a whole word
WholeWordAt(s, word, i) ==
  /\ i + Len(word) - 1 <= Len(s)
  /\ toLowerCase(SubSeq(s, i, i + Len(word) - 1)) = word
  /\ WordBoundaryAt(s, i)
  /\ WordBoundaryAt(s, i + Len(word))

Distance(a, b) == IF a >= b THEN a - b ELSE b - a

\* the date a phrase resolves to against the reference
phraseDate(phrase, ref) ==
  IF phrase = W_tomorrow THEN addDays(ref, 1)
  ELSE Let(DayNumber(ref.y, ref.m, ref.d), LAMBDA n :
       Let([y \in {ref.y - 1, ref.y, ref.y + 1} |->
              Distance(DayNumber(y, 3, 1), n)], LAMBDA away :
         MakeDate(CHOOSE y \in DOMAIN away : \A z \in DOMAIN away :
                    away[y] < away[z] \/ (away[y] = away[z] /\ y >= z),
                  3, 1)))

\* chrono.parse(text, ref) from position from: the list of results, each
\* [index (0-based), text, date, certainDay, certainMonth, certainYear]
RECURSIVE chronoScan(_, _, _)
chronoScan(text, from, ref) ==
  Let({i \in from..Len(text) :
         \E w \in DatePhrases : WholeWordAt(text, w, i)}, LAMBDA starts :
    IF starts = {} THEN <<>>
    ELSE Let(MinOf(starts), LAMBDA i :
         Let(CHOOSE w \in DatePhrases : WholeWordAt(text, w, i), LAMBDA w :
           <<[index        |-> i - 1,
              text         |-> SubSeq(text, i, i + Len(w) - 1),
              date         |-> phraseDate(w, ref),
              certainDay   |-> w = W_tomorrow,
              certainMonth |-> TRUE,
              certainYear  |-> w = W_tomorrow]>>
             \o chronoScan(text, i + Len(w), ref))))

chronoParse(text, ref) == chronoScan(text, 1, ref)

\* parseDateInput without its ISO fast path: every input goes to the recognizer
parseDateInput_recognizerOnly(input, reference) ==
  Let(chronoParse(input, reference), LAMBDA results :
    IF Len(results) = 0
      THEN [err |-> "ParseError", date |-> <<>>, ambiguous |-> FALSE]
      ELSE [err       |-> "none",
            date      |-> formatISO(results[1].date).val,
            ambiguous |-> \/ ~results[1].certainDay
                          \/ ~results[1].certainMonth
                          \/ ~results[1].certainYear])

\* parseDateInput(input, { reference }): [err, date, ambiguous]; the dates
\* formatted here are valid, so formatISO returns
parseDateInput(input, reference) ==
  Let(parseISO(input), LAMBDA isoCandidate :
    IF isValid(isoCandidate) /\ StartsWithIsoDate(trim(input))
      THEN [err |-> "none", date |-> formatISO(isoCandidate).val,
            ambiguous |-> FALSE]
    ELSE Let(chronoParse(input, reference), LAMBDA results :
      IF Len(results) = 0
        THEN [err |-> "ParseError", date |-> <<>>, ambiguous |-> FALSE]
        ELSE [err       |-> "none",
              date      |-> formatISO(results[1].date).val,
              ambiguous |-> \/ ~results[1].certainDay
                            \/ ~results[1].certainMonth
                            \/ ~results[1].certainYear]))

(***************************************************************************)
(* runner.ts: extractMetadataFromTitle                                     *)
(***************************************************************************)
\* /#\w+/ tried at position i: the position of the last character of the
\* match, or 0
HashtagEnd(s, i) ==
  IF s[i] = "#" /\ i + 1 <= Len(s) /\ IsWordChar(s[i + 1])
    THEN Let({j \in (i + 1)..Len(s) : ~IsWordChar(s[j])}, LAMBDA stop :
           IF stop = {} THEN Len(s) ELSE MinOf(stop) - 1)
    ELSE 0

\* cleanTitle.match(/#\w+/g): the matches from position from, in order
RECURSIVE hashtagMatches(_, _)
hashtagMatches(s, from) ==
  Let({i \in from..Len(s) : HashtagEnd(s, i) # 0}, LAMBDA starts :
    IF starts = {} THEN <<>>
    ELSE Let(MinOf(starts), LAMBDA i :
         Let(HashtagEnd(s, i), LAMBDA e :
           <<SubSeq(s, i, e)>> \o hashtagMatches(s, e + 1))))

\* cleanTitle.replace(/#\w+/g, "") from position from
RECURSIVE removeHashtags(_, _)
removeHashtags(s, from) ==
  Let({i \in from..Len(s) : HashtagEnd(s, i) # 0}, LAMBDA starts :
    IF starts = {} THEN SubSeq(s, from, Len(s))
    ELSE Let(MinOf(starts), LAMBDA i :
           SubSeq(s, from, i - 1)
             \o removeHashtags(s, HashtagEnd(s, i) + 1)))

PriorityWords == <<P_low, P_medium, P_high, P_urgent>>

\* the word PriorityWords[k] is written at position i of s in any letter
\* case and ends at a word boundary
PriorityWordAt(s, i, k) ==
  /\ i + Len(PriorityWords[k]) - 1 <= Len(s)
  /\ toLowerCase(SubSeq(s, i, i + Len(PriorityWords[k]) - 1)) = PriorityWords[k]
  /\ WordBoundaryAt(s, i + Len(PriorityWords[k]))

\* (p[1-4]|low|medium|high|urgent)\b, the pattern without its p\d alternative
PriorityMatchLen_oneToFour(s, i) ==
  IF /\ toLowerChar(s[i]) = "p" /\ i + 1 <= Len(s)
     /\ s[i + 1] \in {"1", "2", "3", "4"}
     /\ WordBoundaryAt(s, i + 2)
    THEN 2
  ELSE Let({k \in 1..Len(PriorityWords) : PriorityWordAt(s, i, k)},
           LAMBDA words :
             IF words # {} THEN Len(PriorityWords[MinOf(words)]) ELSE 0)

\* (p\d|p[1-4]|low|medium|high|urgent)\b tried at position i with the i flag:
\* the length of the match, or 0; the alternatives are tried in order
PriorityMatchLen(s, i) ==
  IF /\ toLowerChar(s[i]) = "p" /\ i + 1 <= Len(s) /\ IsDigit(s[i + 1])
     /\ WordBoundaryAt(s, i + 2)
    THEN 2
  ELSE IF /\ toLowerChar(s[i]) = "p" /\ i + 1 <= Len(s)
          /\ s[i + 1] \in {"1", "2", "3", "4"}
          /\ WordBoundaryAt(s, i + 2)
    THEN 2
  ELSE Let({k \in 1..Len(PriorityWords) : PriorityWordAt(s, i, k)},
           LAMBDA words :
             IF words # {} THEN Len(PriorityWords[MinOf(words)]) ELSE 0)

\* cleanTitle.match(/\b(p\d|p[1-4]|low|medium|high|urgent)\b/i):
\* [found, text], the leftmost match
priorityMatch(s) ==
  Let({i \in 1..Len(s) : WordBoundaryAt(s, i) /\ PriorityMatchLen(s, i) > 0},
      LAMBDA starts :
        IF starts = {} THEN [found |-> FALSE, text |-> <<>>]
        ELSE Let(MinOf(starts), LAMBDA i :
               [found |-> TRUE,
                text  |-> SubSeq(s, i, i + PriorityMatchLen(s, i) - 1)]))

\* the title with the recognizer's best match cut out
stripDate(title, best) ==
  Let(trimStart(sliceFrom(title, best.index + Len(best.text))), LAMBDA tail :
    trim(trimEnd(sliceTo(title, best.index))
           \o (IF Len(tail) > 0 THEN <<" ">> ELSE <<>>) \o tail))

\* the date step with the flag taken over all the results of the recognizer
\* instead of results[0]
extractDate_anyCandidate(title, now) ==
  Let(chronoParse(title, now), LAMBDA results :
    IF Len(results) > 0
      THEN Let(stripDate(title, results[1]), LAMBDA cleanTitle :
             [cleanTitle |-> IF cleanTitle = <<>> THEN title ELSE cleanTitle,
              due        |-> Some(formatISO(results[1].date).val),
              ambiguous  |-> \E k \in 1..Len(results) :
                               \/ ~results[k].certainDay
                               \/ ~results[k].certainMonth
                               \/ ~results[k].certainYear])
      ELSE [cleanTitle |-> title,
            due        |-> Undefined,
            ambiguous  |-> FALSE])

\* the date step of extractMetadataFromTitle: [cleanTitle, due, ambiguous]
\* after "if (!cleanTitle) cleanTitle = title"
extractDate(title, now) ==
  Let(chronoParse(title, now), LAMBDA results :
    IF Len(results) > 0
      THEN Let(stripDate(title, results[1]), LAMBDA cleanTitle :
             [cleanTitle |-> IF cleanTitle = <<>> THEN title ELSE cleanTitle,
              due        |-> Some(formatISO(results[1].date).val),
              ambiguous  |-> \/ ~results[1].certainDay
                             \/ ~results[1].certainMonth
                             \/ ~results[1].certainYear])
      ELSE [cleanTitle |-> title,
            due        |-> Undefined,
            ambiguous  |-> FALSE])

\* the tag step: the hashtags of cleanTitle, lowercased without the "#"
extractTags(cleanTitle) ==
  Let(hashtagMatches(cleanTitle, 1), LAMBDA matches :
    [k \in 1..Len(matches) |->
       toLowerCase(SubSeq(matches[k], 2, Len(matches[k])))])

\* the priority step on the title left by the tag step: [title, priority];
\* an applyPriority that throws is ignored and leaves both as they were
extractPriority(cleanTitle) ==
  Let(priorityMatch(cleanTitle), LAMBDA pm :
    IF ~pm.found THEN [title |-> cleanTitle, priority |-> Undefined]
    ELSE Let(applyPriority(Some(pm.text)), LAMBDA applied :
           IF applied.err # "none"
             THEN [title |-> cleanTitle, priority |-> Undefined]
             ELSE [title    |-> trim(collapseSpaces(
                                  replaceFirstWithEmpty(cleanTitle, pm.text))),
                   priority |-> Some(applied.val)]))

\* extractMetadataFromTitle(title); now is the recognizer's reference instant:
\* [title, due, ambiguous, priority, tags]
extractMetadataFromTitle(title, now) ==
  Let(extractDate(title, now), LAMBDA dated :
  Let(extractPriority(trim(collapseSpaces(removeHashtags(dated.cleanTitle, 1)))),
      LAMBDA prioritized :
        [title     |-> prioritized.title,
         due       |-> dated.due,
         ambiguous |-> dated.ambiguous,
         priority  |-> prioritized.priority,
         tags      |-> extractTags(dated.cleanTitle)]))

(***************************************************************************)
(* The store (storage.ts), the audit log (logger.ts) and the command       *)
(* handlers of runner.ts.  state is data.json, config is config.json,      *)
(* audit is audit.log, clock counts the timestamps handed out by           *)
(* new Date().toISOString(); call is the call being made (a command with   *)
(* its arguments, or a function with its inputs) and ret is its outcome.   *)
(***************************************************************************)
VARIABLES state, config, audit, clock, call, ret

vars == <<state, config, audit, clock, call, ret>>

\* the number of commands that write a timestamp in one run of the model
MaxClock == 2

\* the number of words in a generated title
MaxTitleWords == 3

\* the number of tokens in a generated duration string
MaxDurationTokens == 2

\* storage.ts defaultState
defaultState == [nextId |-> 1, tasks |-> <<>>]

\* storage.ts defaultConfig: integrations is a Record<string,
\* IntegrationConfig>, a function from the names configured so far, and
\* timezone is the zone of the machine
defaultConfig ==
  [role            |-> <<"t","a","s","k","s">>,
   theme           |-> <<"m","i","n","i","m","a","l">>,
   defaultPriority |-> P_medium,
   timezone        |-> <<"U","T","C">>,
   integrations    |-> <<>>]

\* the calendar date of new Date() while the commands run
Today == MakeDate(2026, 11, 6)

NoTime == [has |-> FALSE, n |-> 0]

Time(n) == [has |-> TRUE, n |-> n]

\* command-utils.ts findTask: the index of the first task with that id, or 0
\* (the caller throws "Task not found")
findTask(st, id) ==
  LET at == {k \in 1..Len(st.tasks) : st.tasks[k].id = id}
  IN  IF at = {} THEN 0 ELSE MinOf(at)

\* a handler's outcome: the error thrown ("none": it returned), the state
\* writeState stored (the state read when nothing was written), whether
\* logAudit ran, the first line of the output, the string[] it returned as
\* the number of text lines of each element (the handlers that write return
\* one line) and the ids of the tasks the output shows
Outcome(err, st, logged, out) ==
  [err |-> err, state |-> st, logged |-> logged, out |-> out,
   output |-> IF err = "none" THEN <<1>> ELSE <<>>, shown |-> <<>>]

Failed(err, st) == Outcome(err, st, FALSE, "")

\* process.stdin.isTTY && process.stdout.isTTY ? await confirmAmbiguousDate(date)
\* : throw: the error of the ambiguity branch of add and edit
ambiguityError(args) ==
  IF args.tty THEN (IF args.confirm THEN "none" ELSE "Cancelled")
  ELSE "AmbiguousDate"

\* the result of a date parse that was not asked for
NotParsed == [err |-> "none", date |-> <<>>, ambiguous |-> FALSE]

\* the task of add with the title as it was typed in place of natural.title
addTask_rawTitle(args, id, now, natural, due, priority) ==
  [id           |-> id,
   title        |-> trim(args.title),
   notes        |-> IF Truthy(args.notes) THEN args.notes ELSE Undefined,
   due          |-> due,
   priority     |-> priority,
   tags         |-> dedupe((IF Truthy(args.tags) THEN parseTags(args.tags)
                            ELSE <<>>) \o natural.tags),
   repeat       |-> IF Truthy(args.repeat) THEN args.repeat ELSE Undefined,
   status       |-> "open",
   createdAt    |-> now,
   updatedAt    |-> now,
   completedAt  |-> NoTime,
   snoozedUntil |-> Undefined,
   history      |-> <<[timestamp |-> now, action |-> "created",
                       details |-> Some(<<"p","r","i","o","r","i","t","y","=">> \o priority
                         \o (IF Truthy(due) THEN <<" ","d","u","e","=">> \o due.v
                             ELSE <<>>))]>>]

\* the task the add handler builds; due is the optional final due date
addTask(args, id, now, natural, due, priority) ==
  [id           |-> id,
   title        |-> natural.title,
   notes        |-> IF Truthy(args.notes) THEN args.notes ELSE Undefined,
   due          |-> due,
   priority     |-> priority,
   tags         |-> dedupe((IF Truthy(args.tags) THEN parseTags(args.tags)
                            ELSE <<>>) \o natural.tags),
   repeat       |-> IF Truthy(args.repeat) THEN args.repeat ELSE Undefined,
   status       |-> "open",
   createdAt    |-> now,
   updatedAt    |-> now,
   completedAt  |-> NoTime,
   snoozedUntil |-> Undefined,
   history      |-> <<[timestamp |-> now, action |-> "created",
                       details |-> Some(<<"p","r","i","o","r","i","t","y","=">> \o priority
                         \o (IF Truthy(due) THEN <<" ","d","u","e","=">> \o due.v
                             ELSE <<>>))]>>]

\* the add handler: args = [title, due, priority, tags, repeat, notes, tty,
\* confirm]; now is the timestamp
addHandler(args, cfg, st, now) ==
  Let(trim(args.title), LAMBDA title :
    IF title = <<>> THEN Failed("TitleRequired", st)
    ELSE
    Let(extractMetadataFromTitle(title, Today), LAMBDA natural :
    Let(IF Truthy(args.due) THEN args.due ELSE natural.due, LAMBDA due :
    Let(IF Truthy(due) THEN parseDateInput(due.v, Today) ELSE NotParsed,
        LAMBDA parsed :
      IF parsed.err # "none" THEN Failed(parsed.err, st)
      ELSE IF /\ Truthy(due)
              /\ (natural.ambiguous \/ parsed.ambiguous)
              /\ ambiguityError(args) # "none"
        THEN Failed(ambiguityError(args), st)
      ELSE
      Let(IF Truthy(args.priority) THEN applyPriority(args.priority)
          ELSE IF natural.priority.has THEN Returned(natural.priority.v)
          ELSE Returned(cfg.defaultPriority), LAMBDA priority :
        IF priority.err # "none" THEN Failed(priority.err, st)
        ELSE Outcome("none",
               [nextId |-> st.nextId + 1,
                tasks  |-> Append(st.tasks,
                  addTask(args, st.nextId, now, natural,
                          IF Truthy(due) THEN Some(parsed.date) ELSE Undefined,
                          priority.val))],
               TRUE, "Task added"))))))

\* the done handler without "task.completedAt = undefined" in its undo branch
doneHandler_keepsCompletedAt(args, st, now) ==
  IF ~args.id.has THEN Failed("TaskIdRequired", st)
  ELSE Let(findTask(st, args.id.n), LAMBDA k :
    IF k = 0 THEN Failed("TaskNotFound", st)
    ELSE Outcome("none",
           [st EXCEPT !.tasks[k] =
              [@ EXCEPT !.status = IF args.undo THEN "open" ELSE "done",
                        !.updatedAt = now,
                        !.completedAt = IF args.undo THEN @ ELSE Time(now),
                        !.history = Append(@, [timestamp |-> now,
                          action |-> IF args.undo THEN "reopened" ELSE "completed",
                          details |-> Undefined])]],
           TRUE, IF args.undo THEN "Task reopened" ELSE "Task completed"))

\* the done handler: args = [id, undo]
doneHandler(args, st, now) ==
  IF ~args.id.has THEN Failed("TaskIdRequired", st)
  ELSE Let(findTask(st, args.id.n), LAMBDA k :
    IF k = 0 THEN Failed("TaskNotFound", st)
    ELSE Outcome("none",
           [st EXCEPT !.tasks[k] =
              [@ EXCEPT !.status = IF args.undo THEN "open" ELSE "done",
                        !.updatedAt = now,
                        !.completedAt = IF args.undo THEN NoTime ELSE Time(now),
                        !.history = Append(@, [timestamp |-> now,
                          action |-> IF args.undo THEN "reopened" ELSE "completed",
                          details |-> Undefined])]],
           TRUE, IF args.undo THEN "Task reopened" ELSE "Task completed"))

\* the snooze handler: args = [id, duration]
snoozeHandler(args, st, now) ==
  IF ~args.id.has \/ ~Truthy(args.duration) THEN Failed("Usage", st)
  ELSE Let(findTask(st, args.id.n), LAMBDA k :
    IF k = 0 THEN Failed("TaskNotFound", st)
    ELSE Let(applySnooze(st.tasks[k].due, args.duration.v, Today),
             LAMBDA updatedDue :
      IF updatedDue.err # "none" THEN Failed(updatedDue.err, st)
      ELSE Outcome("none",
             [st EXCEPT !.tasks[k] =
                [@ EXCEPT !.due = Some(updatedDue.val),
                          !.snoozedUntil = Some(updatedDue.val),
                          !.updatedAt = now,
                          !.history = Append(@, [timestamp |-> now,
                            action |-> "snoozed", details |-> args.duration])]],
             TRUE, "Task snoozed")))

\* updates.join(", ")
RECURSIVE joinUpdates(_)
joinUpdates(updates) ==
  IF Len(updates) = 0 THEN <<>>
  ELSE IF Len(updates) = 1 THEN updates[1]
  ELSE updates[1] \o <<","," ">> \o joinUpdates(Tail(updates))

\* the updates list of the edit handler, in the order of its if statements
editUpdates(args, priority, date) ==
  (IF Truthy(args.title) THEN <<<<"t","i","t","l","e">>>> ELSE <<>>)
  \o (IF Truthy(args.priority) THEN <<<<"p","r","i","o","r","i","t","y","=">> \o priority>> ELSE <<>>)
  \o (IF Truthy(args.tags) THEN <<<<"t","a","g","s">>>> ELSE <<>>)
  \o (IF Truthy(args.repeat) THEN <<<<"r","e","p","e","a","t","=">> \o args.repeat.v>> ELSE <<>>)
  \o (IF args.notes.has THEN <<<<"n","o","t","e","s">>>> ELSE <<>>)
  \o (IF args.clearDue THEN <<<<"d","u","e"," ","c","l","e","a","r","e","d">>>>
      ELSE IF Truthy(args.due) THEN <<<<"d","u","e","=">> \o date>> ELSE <<>>)

\* the task after the assignments of the edit handler
editedTask(task, args, priority, date, now, updates) ==
  [task EXCEPT
     !.title     = IF Truthy(args.title) THEN args.title.v ELSE @,
     !.priority  = IF Truthy(args.priority) THEN priority ELSE @,
     !.tags      = IF Truthy(args.tags) THEN parseTags(args.tags) ELSE @,
     !.repeat    = IF Truthy(args.repeat) THEN args.repeat ELSE @,
     !.notes     = IF args.notes.has THEN args.notes ELSE @,
     !.due       = IF args.clearDue THEN Undefined
                   ELSE IF Truthy(args.due) THEN Some(date) ELSE @,
     !.updatedAt = now,
     !.history   = Append(@, [timestamp |-> now, action |-> "edited",
                              details |-> Some(joinUpdates(updates))])]

\* the edit handler over a state object that is the store itself: the title
\* assigned before applyPriority throws stays
editHandler_sharedObject(args, st, now) ==
  IF ~args.id.has THEN Failed("TaskIdRequired", st)
  ELSE Let(findTask(st, args.id.n), LAMBDA k :
    IF k = 0 THEN Failed("TaskNotFound", st)
    ELSE
    Let(IF Truthy(args.priority) THEN applyPriority(args.priority)
        ELSE Returned(<<>>), LAMBDA priority :
      IF priority.err # "none"
        THEN Failed(priority.err,
               [st EXCEPT !.tasks[k].title =
                  IF Truthy(args.title) THEN args.title.v ELSE @])
      ELSE
      Let(IF ~args.clearDue /\ Truthy(args.due)
            THEN parseDateInput(args.due.v, Today) ELSE NotParsed,
          LAMBDA parsed :
        IF parsed.err # "none" THEN Failed(parsed.err, st)
        ELSE IF parsed.ambiguous /\ ambiguityError(args) # "none"
          THEN Failed(ambiguityError(args), st)
        ELSE
        Let(editUpdates(args, priority.val, parsed.date), LAMBDA updates :
          IF Len(updates) = 0
            THEN Outcome("none", st, FALSE, "No changes applied.")
            ELSE Outcome("none",
                   [st EXCEPT !.tasks[k] =
                      editedTask(@, args, priority.val, parsed.date, now,
                                 updates)],
                   TRUE, "Updated task")))))

\* the edit handler: args = [id, title, priority, tags, repeat, notes,
\* clearDue, due, tty, confirm].  The fields of the task read from the store
\* are changed one after another; a throw on the way leaves the store as read.
editHandler(args, st, now) ==
  IF ~args.id.has THEN Failed("TaskIdRequired", st)
  ELSE Let(findTask(st, args.id.n), LAMBDA k :
    IF k = 0 THEN Failed("TaskNotFound", st)
    ELSE
    Let(IF Truthy(args.priority) THEN applyPriority(args.priority)
        ELSE Returned(<<>>), LAMBDA priority :
      IF priority.err # "none" THEN Failed(priority.err, st)
      ELSE
      Let(IF ~args.clearDue /\ Truthy(args.due)
            THEN parseDateInput(args.due.v, Today) ELSE NotParsed,
          LAMBDA parsed :
        IF parsed.err # "none" THEN Failed(parsed.err, st)
        ELSE IF parsed.ambiguous /\ ambiguityError(args) # "none"
          THEN Failed(ambiguityError(args), st)
        ELSE
        Let(editUpdates(args, priority.val, parsed.date), LAMBDA updates :
          IF Len(updates) = 0
            THEN Outcome("none", st, FALSE, "No changes applied.")
            ELSE Outcome("none",
                   [st EXCEPT !.tasks[k] =
                      editedTask(@, args, priority.val, parsed.date, now,
                                 updates)],
                   TRUE, "Updated task")))))

\* confirmDestructive without the test of the prompt's answer
confirmDestructive_answerIgnored(flag, tty, confirm) ==
  IF flag THEN "none"
  ELSE IF ~tty THEN "NeedsYes"
  ELSE "none"

\* command-utils.ts confirmDestructive(action, flag): the error it throws
confirmDestructive(flag, tty, confirm) ==
  IF flag THEN "none"
  ELSE IF ~tty THEN "NeedsYes"
  ELSE IF ~confirm THEN "Cancelled"
  ELSE "none"

\* nanoid(4): the identifiers the model draws from
NanoIds == {<<"V","1","S","t">>}

\* the task the import loop builds from rawTask
importedTask(rawTask, id, file, now, nano) ==
  [id           |-> id,
   title        |-> IF rawTask.title.has THEN rawTask.title.v
                    ELSE <<"I","m","p","o","r","t","e","d"," ">> \o nano,
   notes        |-> rawTask.notes,
   due          |-> rawTask.due,
   priority     |-> IF rawTask.priority.has THEN rawTask.priority.v ELSE P_medium,
   tags         |-> rawTask.tags,
   repeat       |-> rawTask.repeat,
   status       |-> IF rawTask.status = "done" THEN "done" ELSE "open",
   createdAt    |-> now,
   updatedAt    |-> now,
   completedAt  |-> NoTime,
   snoozedUntil |-> Undefined,
   history      |-> <<[timestamp |-> now, action |-> "imported",
                       details |-> Some(file)]>>]

\* the loop with "id: state.nextId" for every task and one increment of
\* nextId after the loop
importLoop_oneIncrement(payload, i, st, file, now, nano) ==
  [nextId |-> st.nextId + 1,
   tasks  |-> st.tasks \o [k \in 1..(Len(payload) - i + 1) |->
                importedTask(payload[i + k - 1], st.nextId, file, now, nano)]]

\* the for loop of the import handler over payload[i..]
RECURSIVE importLoop(_, _, _, _, _, _)
importLoop(payload, i, st, file, now, nano) ==
  IF i > Len(payload) THEN st
  ELSE importLoop(payload, i + 1,
         [nextId |-> st.nextId + 1,
          tasks  |-> Append(st.tasks,
                       importedTask(payload[i], st.nextId, file, now, nano))],
         file, now, nano)

\* the import handler: args = [file, content, yes, tty, confirm, nano];
\* content is what the file holds: [kind, payload] with kind one of
\* "missing", "garbage" (no JSON), "object" (JSON, no array), "array"
importHandler(args, st, now) ==
  IF ~Truthy(args.file) THEN Failed("FileRequired", st)
  ELSE IF args.content.kind = "missing" THEN Failed("FileNotFound", st)
  ELSE IF args.content.kind = "garbage" THEN Failed("InvalidJSON", st)
  ELSE IF args.content.kind # "array" THEN Failed("NotArray", st)
  ELSE IF Len(args.content.payload) = 0 THEN Failed("NoTasks", st)
  ELSE IF confirmDestructive(args.yes, args.tty, args.confirm) # "none"
    THEN Failed(confirmDestructive(args.yes, args.tty, args.confirm), st)
  ELSE Outcome("none",
               importLoop(args.content.payload, 1, st, args.file.v, now, args.nano),
               TRUE, "Imported")

(***************************************************************************)
(* The commands that read the store: list, view, search, export.  The      *)
(* string[] a handler returns is modelled by the number of text lines each *)
(* of its elements holds (a JSON document is one element of many lines; the*)
(* titles of the model hold no line break), together with the ids of the   *)
(* tasks it shows.                                                         *)
(***************************************************************************)
\* the sum of a list of numbers
RECURSIVE SumSeq(_)
SumSeq(ns) == IF Len(ns) = 0 THEN 0 ELSE ns[1] + SumSeq(Tail(ns))

\* the text lines of output.join("\n")
TextLines(output) == SumSeq(output)

\* n elements of one text line each
OneLineEach(n) == [k \in 1..n |-> 1]

\* the ids of a list of tasks, in order
idsOf(tasks) == [k \in 1..Len(tasks) |-> tasks[k].id]

\* the text lines of JSON.stringify(entry, null, 2) for a history entry:
\* the braces, timestamp, action and details when it is defined
jsonLinesOfEntry(entry) == 4 + (IF entry.details.has THEN 1 ELSE 0)

\* the text lines of a property whose value is an array: "[]" on the line of
\* the key when it is empty, else the brackets and the lines of the elements
jsonLinesOfArray(elementLines) ==
  IF Len(elementLines) = 0 THEN 1 ELSE 2 + SumSeq(elementLines)

\* the text lines of JSON.stringify(task, null, 2): the braces, the six
\* fields every task has, the optional fields that are defined, the tags
\* and the history
jsonLinesOfTask(task) ==
  8 + (IF task.notes.has THEN 1 ELSE 0)
    + (IF task.due.has THEN 1 ELSE 0)
    + (IF task.repeat.has THEN 1 ELSE 0)
    + (IF task.completedAt.has THEN 1 ELSE 0)
    + (IF task.snoozedUntil.has THEN 1 ELSE 0)
    + jsonLinesOfArray(OneLineEach(Len(task.tags)))
    + jsonLinesOfArray([k \in 1..Len(task.history) |->
                          jsonLinesOfEntry(task.history[k])])

\* the text lines of JSON.stringify(tasks, null, 2)
jsonLines(tasks) ==
  jsonLinesOfArray([k \in 1..Len(tasks) |-> jsonLinesOfTask(tasks[k])])

\* the characters of the model in the order of String.prototype.localeCompare:
\* whitespace, punctuation, digits, letters
CollationOrder ==
  <<" ", "_", "-", ",", ".", "#", "+">> \o DigitChars \o LowerLetters

\* the primary collation weight of a character (a letter weighs the same in
\* both cases)
CollationRank(c) ==
  CHOOSE i \in 1..Len(CollationOrder) : CollationOrder[i] = toLowerChar(c)

\* a.localeCompare(b) by primary weights from position i
RECURSIVE comparePrimary(_, _, _)
comparePrimary(a, b, i) ==
  IF i > Len(a) /\ i > Len(b) THEN 0
  ELSE IF i > Len(a) THEN -1
  ELSE IF i > Len(b) THEN 1
  ELSE IF CollationRank(a[i]) < CollationRank(b[i]) THEN -1
  ELSE IF CollationRank(a[i]) > CollationRank(b[i]) THEN 1
  ELSE comparePrimary(a, b, i + 1)

\* a.localeCompare(b): primary weights first; between strings that differ in
\* letter case only, the lowercase letter at the first difference comes first
localeCompare(a, b) ==
  Let(comparePrimary(a, b, 1), LAMBDA primary :
    IF primary # 0 THEN primary
    ELSE Let({i \in 1..Len(a) : a[i] # b[i]}, LAMBDA differ :
           IF differ = {} THEN 0
           ELSE IF a[MinOf(differ)] \in LowerSet THEN -1 ELSE 1))

\* priorityRank(priority)
priorityRank(priority) ==
  CASE priority = P_urgent -> 4
    [] priority = P_high -> 3
    [] priority = P_medium -> 2
    [] priority = P_low -> 1
    [] OTHER -> 0

\* task.due ?? ""
dueOrEmpty(task) == IF task.due.has THEN task.due.v ELSE <<>>

\* sortTasks(a, b, key): negative when a comes first; createdAt is a
\* timestamp, whose text order is the order of time
sortTasks(a, b, key) ==
  CASE key = <<"p","r","i","o","r","i","t","y">> -> priorityRank(b.priority) - priorityRank(a.priority)
    [] key = <<"c","r","e","a","t","e","d">> -> a.createdAt - b.createdAt
    [] OTHER -> localeCompare(dueOrEmpty(a), dueOrEmpty(b))

\* x put into the sorted list after every element that does not come after
\* it (Array.prototype.sort is stable)
insertSorted(sorted, x, key) ==
  Let({k \in 1..Len(sorted) : sortTasks(sorted[k], x, key) > 0}, LAMBDA later :
  Let(IF later = {} THEN Len(sorted) + 1 ELSE MinOf(later), LAMBDA at :
    SubSeq(sorted, 1, at - 1) \o <<x>> \o SubSeq(sorted, at, Len(sorted))))

\* [...state.tasks].sort((a, b) => sortTasks(a, b, sort)) over the first n
\* tasks
RECURSIVE sortFirst(_, _, _)
sortFirst(tasks, n, key) ==
  IF n = 0 THEN <<>>
  ELSE insertSorted(sortFirst(tasks, n - 1, key), tasks[n], key)

\* the status filter of list: "all", "done", and open for every other word
statusFilter(tasks, status) ==
  IF status = <<"a","l","l">> THEN tasks
  ELSE IF status = <<"d","o","n","e">>
    THEN SelectSeq(tasks, LAMBDA task : task.status = "done")
  ELSE SelectSeq(tasks, LAMBDA task : task.status = "open")

\* task.tags.includes(tag)
hasTag(task, tag) == \E k \in 1..Len(task.tags) : task.tags[k] = tag

\* the tasks list shows: sorted, filtered by status and by tag, cut at limit;
\* args = [status, tag, limit, format, sort, verbose]
listedTasks(args, st) ==
  Let(statusFilter(
        sortFirst(st.tasks, Len(st.tasks),
                  IF args.sort.has THEN args.sort.v ELSE <<"d","u","e">>),
        IF args.status.has THEN args.status.v ELSE <<"o","p","e","n">>), LAMBDA byStatus :
  Let(IF Truthy(args.tag)
        THEN SelectSeq(byStatus,
               LAMBDA task : hasTag(task, toLowerCase(args.tag.v)))
        ELSE byStatus, LAMBDA byTag :
    IF args.limit.has /\ args.limit.n > 0
      THEN SubSeq(byTag, 1, IF args.limit.n < Len(byTag) THEN args.limit.n
                            ELSE Len(byTag))
      ELSE byTag))

\* the lines of a listing of n tasks in the given format; the table has
\* three lines of header and one of footer around one row for each task
listingLines(format, tasks) ==
  IF format = Some(<<"j","s","o","n">>) THEN <<jsonLines(tasks)>>
  ELSE IF format = Some(<<"c","s","v">>) THEN OneLineEach(1 + Len(tasks))
  ELSE IF format = Some(<<"m","d">>) THEN OneLineEach(2 + Len(tasks))
  ELSE OneLineEach(3 + Len(tasks) + 1)

\* a handler that returned output without writing the store or the audit log
Shown(st, out, output, tasks) ==
  [Outcome("none", st, FALSE, out) EXCEPT
     !.output = output, !.shown = idsOf(tasks)]

\* the list handler
listHandler(args, st) ==
  Let(listedTasks(args, st), LAMBDA tasks :
    Shown(st, "list", listingLines(args.format, tasks), tasks))

\* buildTaskSummary(task): the number of lines it pushes, or the error of
\* summarizeNextOccurrences
buildTaskSummary(task) ==
  Let(IF Truthy(task.repeat)
        THEN summarizeNextOccurrences(task.repeat, task.due)
        ELSE [err |-> "none", val |-> <<>>], LAMBDA next :
    [err   |-> next.err,
     lines |-> 2 + (IF Truthy(task.due) THEN 1 ELSE 0)
                 + 1
                 + (IF Len(task.tags) > 0 THEN 1 ELSE 0)
                 + (IF Truthy(task.repeat)
                      THEN 1 + (IF Len(next.val) > 0 THEN 1 ELSE 0) ELSE 0)
                 + (IF Truthy(task.notes) THEN 1 ELSE 0)
                 + 2
                 + (IF Len(task.history) > 0
                      THEN 1 + (IF Len(task.history) < 5
                                  THEN Len(task.history) ELSE 5)
                      ELSE 0)])

\* the view handler: args = [id, verbose]
viewHandler(args, st) ==
  IF ~args.id.has THEN Failed("TaskIdRequired", st)
  ELSE Let(findTask(st, args.id.n), LAMBDA k :
    IF k = 0 THEN Failed("TaskNotFound", st)
    ELSE Let(buildTaskSummary(st.tasks[k]), LAMBDA summary :
      IF summary.err # "none" THEN Failed(summary.err, st)
      ELSE Shown(st, "view", OneLineEach(summary.lines), <<st.tasks[k]>>)))

\* String.prototype.includes
includes(s, pat) == indexOf(s, pat) # 0

\* the filter of search: the query, lowercased, is part of the title, of the
\* notes or of a tag
searchMatches(task, lower) ==
  \/ includes(toLowerCase(task.title), lower)
  \/ includes(toLowerCase(IF task.notes.has THEN task.notes.v ELSE <<>>), lower)
  \/ \E k \in 1..Len(task.tags) : includes(task.tags[k], lower)

\* the search handler: args = [query, format, verbose]
searchHandler(args, st) ==
  Let(trim(args.query), LAMBDA query :
    IF query = <<>> THEN Failed("QueryRequired", st)
    ELSE Let(SelectSeq(st.tasks,
               LAMBDA task : searchMatches(task, toLowerCase(query))),
             LAMBDA matches :
      Shown(st, "search",
            IF args.format = Some(<<"j","s","o","n">>) THEN <<jsonLines(matches)>>
            ELSE OneLineEach(4 + Len(matches) + 1),
            matches)))

\* the export handler: args = [format, yes, tty, confirm, verbose]; nothing
\* is read before confirmDestructive has returned
exportHandler(args, st) ==
  Let(confirmDestructive(args.yes, args.tty, args.confirm), LAMBDA refused :
    IF refused # "none" THEN Failed(refused, st)
    ELSE Let(IF args.format.has THEN args.format ELSE Some(<<"j","s","o","n">>),
             LAMBDA format :
      IF format \in {Some(<<"j","s","o","n">>), Some(<<"c","s","v">>), Some(<<"m","d">>)}
        THEN Shown(st, "export", listingLines(format, st.tasks), st.tasks)
        ELSE Failed("UnsupportedFormat", st)))

\* constants.ts MAX_DEFAULT_LINES
MAX_DEFAULT_LINES == 40

\* ensureLineLimit(lines, { limit }): limit is "undefined" or
\* "MAX_SAFE_INTEGER", which no array length exceeds
ensureLineLimit(lines, limit) ==
  IF limit = "MAX_SAFE_INTEGER" THEN lines
  ELSE IF Len(lines) <= MAX_DEFAULT_LINES THEN lines
  ELSE Append(SubSeq(lines, 1, MAX_DEFAULT_LINES - 1), 1)

\* skipLimit of runCommand
skipLimit(verbose, format) ==
  verbose \/ format \in {Some(<<"j","s","o","n">>), Some(<<"c","s","v">>), Some(<<"m","d">>)}

\* the end of runCommand: the output of the handler, cut by ensureLineLimit
\* unless skipLimit
limitedOutput(output, verbose, format) ==
  ensureLineLimit(output, IF skipLimit(verbose, format)
                            THEN "MAX_SAFE_INTEGER" ELSE "undefined")

(***************************************************************************)
(* runner.ts: the config and sync commands                                 *)
(***************************************************************************)
Roles == {<<"t","a","s","k","s">>, <<"g","r","o","c","e","r","y">>, <<"f","i","n","a","n","c","e">>, <<"h","a","b","i","t","s">>, <<"e","m","a","i","l">>}

Themes == {<<"m","i","n","i","m","a","l">>, <<"m","o","n","o">>, <<"c","o","l","o","r">>}

\* const [a, b] = rest: the k-th positional argument, or undefined
ArgAt(rest, k) == IF k <= Len(rest) THEN Some(rest[k]) ELSE Undefined

\* config.integrations[name] ?? { enabled: false }
NoIntegration == [enabled |-> FALSE, apiKey |-> Undefined]

\* config.integrations[name] of a name that may not be configured:
\* [found, value]
integrationOf(cfg, name) ==
  IF name \in DOMAIN cfg.integrations
    THEN [found |-> TRUE, value |-> cfg.integrations[name]]
    ELSE [found |-> FALSE, value |-> NoIntegration]

\* config.integrations[name] = integration
withIntegration(cfg, name, integration) ==
  [cfg EXCEPT !.integrations =
     [n \in (DOMAIN cfg.integrations) \cup {name} |->
        IF n = name THEN integration ELSE cfg.integrations[n]]]

\* the outcome of a config or sync command: the error thrown, the
\* configuration writeConfig stored (the one read when nothing was written),
\* whether logAudit ran, the first words of the output and the number of
\* lines returned
ConfigOutcome(err, cfg, logged, out, lines) ==
  [err |-> err, config |-> cfg, logged |-> logged, out |-> out,
   output |-> IF err = "none" THEN OneLineEach(lines) ELSE <<>>]

ConfigFailed(err, cfg) == ConfigOutcome(err, cfg, FALSE, "", 0)

\* showConfig(config): the number of lines
showConfig(cfg) ==
  5 + (IF DOMAIN cfg.integrations = {} THEN 1
       ELSE 1 + Cardinality(DOMAIN cfg.integrations))

\* "config set <key> <value>": the switch on key, writeConfig, logAudit
configSet(cfg, key, value) ==
  IF ~Truthy(key) \/ ~value.has THEN ConfigFailed("Usage", cfg)
  ELSE IF key.v = <<"r","o","l","e">>
    THEN (IF value.v \notin Roles THEN ConfigFailed("InvalidRole", cfg)
          ELSE ConfigOutcome("none", [cfg EXCEPT !.role = value.v], TRUE,
                             "Updated", 1))
  ELSE IF key.v = <<"t","h","e","m","e">>
    THEN (IF value.v \notin Themes THEN ConfigFailed("InvalidTheme", cfg)
          ELSE ConfigOutcome("none", [cfg EXCEPT !.theme = value.v], TRUE,
                             "Updated", 1))
  ELSE IF key.v = <<"d","e","f","a","u","l","t","P","r","i","o","r","i","t","y">>
    THEN ConfigOutcome("none", [cfg EXCEPT !.defaultPriority = value.v], TRUE,
                       "Updated", 1)
  ELSE IF key.v = <<"t","i","m","e","z","o","n","e">>
    THEN ConfigOutcome("none", [cfg EXCEPT !.timezone = value.v], TRUE,
                       "Updated", 1)
  ELSE ConfigFailed("UnsupportedKey", cfg)

\* "config get <key>"
configGet(cfg, key) ==
  IF ~Truthy(key) THEN ConfigFailed("Usage", cfg)
  ELSE IF key.v \in {<<"r","o","l","e">>, <<"t","h","e","m","e">>, <<"d","e","f","a","u","l","t","P","r","i","o","r","i","t","y">>, <<"t","i","m","e","z","o","n","e">>}
    THEN ConfigOutcome("none", cfg, FALSE, "value", 1)
  ELSE ConfigFailed("UnsupportedKey", cfg)

\* "config integrations <action> <name>": const [action, name] = rest, a
\* third argument is not read
configIntegrations(cfg, action, name) ==
  IF ~Truthy(action) \/ ~Truthy(name) THEN ConfigFailed("Usage", cfg)
  ELSE Let(integrationOf(cfg, name.v).value, LAMBDA integration :
    IF action.v = <<"s","h","o","w">>
      THEN ConfigOutcome("none", cfg, FALSE, "integration", 4)
    ELSE IF action.v \notin {<<"e","n","a","b","l","e">>, <<"d","i","s","a","b","l","e">>}
      THEN ConfigFailed("InvalidAction", cfg)
    ELSE ConfigOutcome("none",
           withIntegration(cfg, name.v,
             [integration EXCEPT !.enabled = (action.v = <<"e","n","a","b","l","e">>)]),
           TRUE,
           IF action.v = <<"e","n","a","b","l","e">> THEN "Enabled integration"
           ELSE "Disabled integration",
           4))

\* the config handler: args = [sub, rest], the positional arguments
configHandler(args, cfg) ==
  IF ~Truthy(args.sub) \/ args.sub.v = <<"s","h","o","w">>
    THEN ConfigOutcome("none", cfg, FALSE, "Configuration", showConfig(cfg))
  ELSE IF args.sub.v = <<"s","e","t">>
    THEN configSet(cfg, ArgAt(args.rest, 1), ArgAt(args.rest, 2))
  ELSE IF args.sub.v = <<"g","e","t">>
    THEN configGet(cfg, ArgAt(args.rest, 1))
  ELSE IF args.sub.v = <<"i","n","t","e","g","r","a","t","i","o","n","s">>
    THEN configIntegrations(cfg, ArgAt(args.rest, 1), ArgAt(args.rest, 2))
  ELSE ConfigFailed("UnknownAction", cfg)

\* the sync handler: args = [provider]
syncHandler(args, cfg) ==
  IF ~Truthy(args.provider)
    THEN ConfigOutcome("none", cfg, FALSE, "integration required", 3)
  ELSE Let(integrationOf(cfg, args.provider.v), LAMBDA integration :
    IF \/ ~integration.found
       \/ ~integration.value.enabled
       \/ ~Truthy(integration.value.apiKey)
      THEN ConfigOutcome("none", cfg, FALSE, "integration required", 5)
      ELSE ConfigOutcome("none", cfg, FALSE, "Sync queued", 2))

(***************************************************************************)
(* The commands the model issues                                           *)
(***************************************************************************)
NoId == [has |-> FALSE, n |-> 0]

Id(n) == [has |-> TRUE, n |-> n]

AddCall(title, due, priority, tags, repeat, tty, confirm) ==
  [op |-> "add", title |-> title, due |-> due, priority |-> priority,
   tags |-> tags, repeat |-> repeat, notes |-> Undefined,
   tty |-> tty, confirm |-> confirm]

AddCalls ==
  { AddCall(<<"T","e","s","t"," ","t","a","s","k">>, Some(<<"2","0","3","5","-","0","1","-","0","1">>), Undefined, Some(<<"w","o","r","k",",","f","o","c","u","s">>),
            Undefined, FALSE, FALSE),
    AddCall(<<"P","a","y"," ","r","e","n","t"," ","#","f","i","n","a","n","c","e"," ","h","i","g","h">>, Undefined, Undefined, Undefined,
            Undefined, FALSE, FALSE),
    AddCall(<<"#","w","o","r","k">>, Undefined, Undefined, Undefined, Undefined, FALSE, FALSE),
    AddCall(<<" "," ">>, Undefined, Undefined, Undefined, Undefined, FALSE, FALSE),
    AddCall(<<"m","a","i","l">>, Some(<<"s","o","o","n">>), Undefined, Undefined, Undefined, FALSE, FALSE),
    AddCall(<<"m","a","i","l">>, Undefined, Some(<<"b","o","g","u","s">>), Undefined, Undefined, FALSE, FALSE),
    AddCall(<<"p","l","a","n"," ","M","a","r","c","h">>, Some(<<"2","0","3","5","-","0","1","-","0","1">>), Undefined, Undefined, Undefined,
            FALSE, FALSE),
    AddCall(<<"w","a","t","e","r"," ","t","o","m","o","r","r","o","w">>, Undefined, Some(<<"P","4">>), Undefined,
            Some(<<"1"," ","m","o","n","t","h">>), FALSE, FALSE) }
  \cup { AddCall(<<"c","a","l","l"," ","M","a","r","c","h">>, Undefined, Undefined, Undefined, Undefined,
                 e[1], e[2]) : e \in {<<FALSE, FALSE>>, <<TRUE, FALSE>>, <<TRUE, TRUE>>} }

\* task ids the commands name: the ids in use, and one that is never stored
Ids == {Id(1), Id(2), Id(99)}

DoneCalls ==
  {[op |-> "done", id |-> i, undo |-> u] : i \in Ids, u \in BOOLEAN}
  \cup {[op |-> "done", id |-> NoId, undo |-> FALSE]}

SnoozeCalls ==
  {[op |-> "snooze", id |-> i, duration |-> d] :
     i \in {Id(1), Id(99)},
     d \in {Some(<<"+","3","d">>), Some(<<"1","w","2","d">>), Some(<<"a","b","c">>), Some(<<"8","0","0","0","y">>)}}
  \cup {[op |-> "snooze", id |-> Id(1), duration |-> Undefined]}

EditCall(id, title, priority, clearDue, due, tty, confirm) ==
  [op |-> "edit", id |-> id, title |-> title, priority |-> priority,
   tags |-> Undefined, repeat |-> Undefined, notes |-> Undefined,
   clearDue |-> clearDue, due |-> due, tty |-> tty, confirm |-> confirm]

EditCalls ==
  { EditCall(Id(1), Some(<<"N","e","w"," ","n","a","m","e">>), Undefined, FALSE, Undefined, FALSE, FALSE),
    EditCall(Id(1), Some(<<"N","e","w"," ","n","a","m","e">>), Some(<<"b","o","g","u","s">>), FALSE, Undefined, FALSE, FALSE),
    EditCall(Id(1), Undefined, Some(<<"u">>), TRUE, Undefined, FALSE, FALSE),
    EditCall(Id(1), Undefined, Undefined, FALSE, Some(<<"2","0","3","1","-","0","5","-","0","5">>), FALSE, FALSE),
    EditCall(Id(1), Undefined, Undefined, FALSE, Some(<<"M","a","r","c","h">>), FALSE, FALSE),
    EditCall(Id(1), Undefined, Undefined, FALSE, Some(<<"M","a","r","c","h">>), TRUE, TRUE),
    EditCall(Id(1), Undefined, Undefined, FALSE, Undefined, FALSE, FALSE),
    EditCall(Id(99), Some(<<"N","e","w"," ","n","a","m","e">>), Undefined, FALSE, Undefined, FALSE, FALSE),
    EditCall(NoId, Undefined, Undefined, FALSE, Undefined, FALSE, FALSE) }

RawTask(title, due, priority, status) ==
  [title |-> title, due |-> due, priority |-> priority, status |-> status,
   notes |-> Undefined, tags |-> <<>>, repeat |-> Undefined]

\* what the import file may hold
ImportContents ==
  { [kind |-> "missing", payload |-> <<>>],
    [kind |-> "garbage", payload |-> <<>>],
    [kind |-> "object", payload |-> <<>>],
    [kind |-> "array", payload |-> <<>>],
    [kind |-> "array",
     payload |-> <<RawTask(Some(<<"i","m","p">>), Some(<<"n","e","x","t"," ","w","e","e","k">>), Undefined, "open")>>],
    [kind |-> "array",
     payload |-> <<RawTask(Some(<<"o","l","d">>), Some(<<>>), Some(<<"l","o","w">>), "closed"),
                   RawTask(Undefined, Some(<<"2","0","2","4","-","0","1","-","3","1">>), Some(<<"b","o","g","u","s">>), "done")>>] }

ImportCall(file, content, yes, tty, confirm, nano) ==
  [op |-> "import", file |-> file, content |-> content, yes |-> yes,
   tty |-> tty, confirm |-> confirm, nano |-> nano]

ImportCalls ==
  { ImportCall(Some(<<"i","n",".","j","s","o","n">>), c, TRUE, FALSE, FALSE, n) :
      c \in ImportContents, n \in NanoIds }
  \cup { ImportCall(Some(<<"i","n",".","j","s","o","n">>), c, FALSE, e[1], e[2], n) :
           c \in {x \in ImportContents : x.kind = "array" /\ Len(x.payload) = 1},
           e \in {<<FALSE, FALSE>>, <<TRUE, FALSE>>, <<TRUE, TRUE>>},
           n \in NanoIds }
  \cup { ImportCall(Undefined, [kind |-> "missing", payload |-> <<>>],
                    TRUE, FALSE, FALSE, n) : n \in NanoIds }

\* a list --limit value: number | undefined
NoCount == [has |-> FALSE, n |-> 0]

Count(n) == [has |-> TRUE, n |-> n]

ListCall(status, tag, limit, format, sort, verbose) ==
  [op |-> "list", status |-> status, tag |-> tag, limit |-> limit,
   format |-> format, sort |-> sort, verbose |-> verbose]

ListCalls ==
  { ListCall(Undefined, Undefined, NoCount, f, Undefined, v) :
      f \in {Undefined, Some(<<"j","s","o","n">>), Some(<<"c","s","v">>), Some(<<"m","d">>)},
      v \in BOOLEAN }
  \cup { ListCall(s, Undefined, NoCount, Some(<<"j","s","o","n">>), Undefined, FALSE) :
           s \in {Some(<<"d","o","n","e">>), Some(<<"a","l","l">>), Some(<<"o","p","e","n">>), Some(<<"c","l","o","s","e","d">>)} }
  \cup { ListCall(Undefined, Some(<<"W","o","r","k">>), NoCount, Undefined, Undefined, FALSE),
         ListCall(Some(<<"a","l","l">>), Undefined, Count(1), Undefined, Some(<<"p","r","i","o","r","i","t","y">>),
                  FALSE),
         ListCall(Some(<<"a","l","l">>), Undefined, Count(0), Undefined, Some(<<"c","r","e","a","t","e","d">>),
                  FALSE) }

ViewCalls ==
  {[op |-> "view", id |-> i, verbose |-> v] :
     i \in {Id(1), Id(99), NoId}, v \in BOOLEAN}

SearchCalls ==
  {[op |-> "search", query |-> q, format |-> f, verbose |-> FALSE] :
     q \in {<<"T","A","S","K">>, <<"w","o","r","k">>, <<"r","e","n","t">>, <<" ">>},
     f \in {Undefined, Some(<<"j","s","o","n">>), Some(<<"c","s","v">>)}}

\* export: format is what minimist hands over, "json" when none is given
ExportCall(format, yes, tty, confirm, verbose) ==
  [op |-> "export", format |-> IF format.has THEN format ELSE Some(<<"j","s","o","n">>),
   yes |-> yes, tty |-> tty, confirm |-> confirm, verbose |-> verbose]

ExportCalls ==
  { ExportCall(f, TRUE, FALSE, FALSE, v) :
      f \in {Undefined, Some(<<"j","s","o","n">>), Some(<<"c","s","v">>), Some(<<"m","d">>), Some(<<"x","m","l">>)},
      v \in BOOLEAN }
  \cup { ExportCall(f, FALSE, e[1], e[2], FALSE) :
           f \in {Some(<<"c","s","v">>), Some(<<"x","m","l">>)},
           e \in {<<FALSE, FALSE>>, <<FALSE, TRUE>>, <<TRUE, FALSE>>,
                  <<TRUE, TRUE>>} }

(***************************************************************************)
(* The command-line program: one action per command                        *)
(***************************************************************************)
Init ==
  /\ state = defaultState
  /\ config = defaultConfig
  /\ audit = <<>>
  /\ clock = 0
  /\ call = [op |-> "start"]
  /\ ret = Failed("none", defaultState)

\* the commands that write neither the store nor the audit log.  Such a
\* command leaves state, config, audit and clock as they are, so the commands
\* after it find what they would find without it: the model runs it as the
\* last command of a run.
ReadCommands == {"list", "view", "search", "export"}

\* a command ran to its end with outcome r: writeState and logAudit have
\* happened when it returned, nothing is stored when it threw; runCommand
\* hands the output of the handler to ensureLineLimit
Run(c, r, entry, verbose, format) ==
  /\ call.op \notin ReadCommands
  /\ call' = c
  /\ ret' = [r EXCEPT !.output = limitedOutput(@, verbose, format)]
  /\ state' = r.state
  /\ audit' = IF r.logged THEN Append(audit, entry) ELSE audit
  /\ clock' = IF r.state # state THEN clock + 1 ELSE clock
  /\ UNCHANGED config

\* a command given without --verbose and without --format
Finish(c, r, entry) == Run(c, r, entry, FALSE, Undefined)

Add ==
  \E c \in AddCalls :
    /\ clock < MaxClock
    /\ Finish(c, addHandler(c, config, state, clock + 1), "add")

Done ==
  \E c \in DoneCalls :
    /\ clock < MaxClock
    /\ Finish(c, doneHandler(c, state, clock + 1),
              IF c.undo THEN "done --undo" ELSE "done")

Snooze ==
  \E c \in SnoozeCalls :
    /\ clock < MaxClock
    /\ Finish(c, snoozeHandler(c, state, clock + 1), "snooze")

Edit ==
  \E c \in EditCalls :
    /\ clock < MaxClock
    /\ Finish(c, editHandler(c, state, clock + 1), "edit")

Import ==
  \E c \in ImportCalls :
    /\ clock < MaxClock
    /\ Finish(c, importHandler(c, state, clock + 1), "import")

List ==
  \E c \in ListCalls :
    Run(c, listHandler(c, state), "list", c.verbose, c.format)

View ==
  \E c \in ViewCalls :
    Run(c, viewHandler(c, state), "view", c.verbose, Undefined)

Search ==
  \E c \in SearchCalls :
    Run(c, searchHandler(c, state), "search", c.verbose, c.format)

Export ==
  \E c \in ExportCalls :
    Run(c, exportHandler(c, state), "export", c.verbose, c.format)

Next ==
  \/ Add
  \/ Done
  \/ Snooze
  \/ Edit
  \/ Import
  \/ List
  \/ View
  \/ Search
  \/ Export

Spec == Init /\ [][Next]_vars

(***************************************************************************)
(* The life of a task: add, done, done --undo and list, run on their own   *)
(* so that a task can be added, completed and reopened in one run.         *)
(***************************************************************************)
\* the number of commands that write in one run of the life of a task
MaxLifeClock == 3

LifeAddCalls ==
  { AddCall(<<"T","e","s","t"," ","t","a","s","k">>, Some(<<"2","0","3","5","-","0","1","-","0","1">>), Undefined, Some(<<"w","o","r","k",",","f","o","c","u","s">>),
            Undefined, FALSE, FALSE),
    AddCall(<<"P","a","y"," ","r","e","n","t"," ","#","f","i","n","a","n","c","e"," ","h","i","g","h">>, Undefined, Undefined, Undefined,
            Undefined, FALSE, FALSE) }

LifeListCalls ==
  { ListCall(s, Undefined, NoCount, Some(<<"j","s","o","n">>), Undefined, FALSE) :
      s \in {Undefined, Some(<<"d","o","n","e">>)} }

LifeAdd ==
  \E c \in LifeAddCalls :
    /\ clock < MaxLifeClock
    /\ Finish(c, addHandler(c, config, state, clock + 1), "add")

LifeDone ==
  \E c \in DoneCalls :
    /\ clock < MaxLifeClock
    /\ Finish(c, doneHandler(c, state, clock + 1),
              IF c.undo THEN "done --undo" ELSE "done")

LifeList ==
  \E c \in LifeListCalls :
    Run(c, listHandler(c, state), "list", c.verbose, c.format)

NextLife == LifeAdd \/ LifeDone \/ LifeList

SpecLife == Init /\ [][NextLife]_vars

(***************************************************************************)
(* Configuration: config set/get/show, config integrations, sync, and the  *)
(* commands that store a priority (add, edit, import), run on their own so  *)
(* that a setting can be changed and then used in one run.                 *)
(***************************************************************************)
\* the number of commands that write in one run of configuration commands
MaxConfigClock == 3

ConfigCall(sub, rest) == [op |-> "config", sub |-> sub, rest |-> rest]

ConfigCalls ==
  { ConfigCall(Undefined, <<>>),
    ConfigCall(Some(<<"s","h","o","w">>), <<>>),
    ConfigCall(Some(<<"s","e","t">>), <<<<"d","e","f","a","u","l","t","P","r","i","o","r","i","t","y">>, <<"u","r","g","e","n","t">>>>),
    ConfigCall(Some(<<"s","e","t">>), <<<<"d","e","f","a","u","l","t","P","r","i","o","r","i","t","y">>, <<"b","o","g","u","s">>>>),
    ConfigCall(Some(<<"s","e","t">>), <<<<"d","e","f","a","u","l","t","P","r","i","o","r","i","t","y">>>>),
    ConfigCall(Some(<<"s","e","t">>), <<<<"r","o","l","e">>, <<"g","r","o","c","e","r","y">>>>),
    ConfigCall(Some(<<"s","e","t">>), <<<<"r","o","l","e">>, <<"c","h","e","f">>>>),
    ConfigCall(Some(<<"s","e","t">>), <<<<"t","h","e","m","e">>, <<"n","e","o","n">>>>),
    ConfigCall(Some(<<"s","e","t">>), <<<<"c","o","l","o","u","r">>, <<"r","e","d">>>>),
    ConfigCall(Some(<<"g","e","t">>), <<<<"d","e","f","a","u","l","t","P","r","i","o","r","i","t","y">>>>),
    ConfigCall(Some(<<"g","e","t">>), <<>>),
    ConfigCall(Some(<<"i","n","t","e","g","r","a","t","i","o","n","s">>), <<<<"e","n","a","b","l","e">>, <<"g","o","o","g","l","e">>, <<"k","e","y","=","s","3","c","r","e","t">>>>),
    ConfigCall(Some(<<"i","n","t","e","g","r","a","t","i","o","n","s">>), <<<<"e","n","a","b","l","e">>, <<"g","o","o","g","l","e">>>>),
    ConfigCall(Some(<<"i","n","t","e","g","r","a","t","i","o","n","s">>), <<<<"d","i","s","a","b","l","e">>, <<"g","o","o","g","l","e">>>>),
    ConfigCall(Some(<<"i","n","t","e","g","r","a","t","i","o","n","s">>), <<<<"s","h","o","w">>, <<"g","o","o","g","l","e">>>>),
    ConfigCall(Some(<<"i","n","t","e","g","r","a","t","i","o","n","s">>), <<<<"p","u","r","g","e">>, <<"g","o","o","g","l","e">>>>),
    ConfigCall(Some(<<"i","n","t","e","g","r","a","t","i","o","n","s">>), <<<<"e","n","a","b","l","e">>>>),
    ConfigCall(Some(<<"r","e","s","e","t">>), <<>>) }

SyncCalls ==
  { [op |-> "sync", provider |-> p] :
      p \in {Undefined, Some(<<"g","o","o","g","l","e">>), Some(<<"n","o","t","i","o","n">>)} }

ConfigAddCalls ==
  { AddCall(<<"m","a","i","l">>, Undefined, Undefined, Undefined, Undefined, FALSE, FALSE),
    AddCall(<<"m","a","i","l"," ","h","i","g","h">>, Undefined, Undefined, Undefined, Undefined, FALSE,
            FALSE),
    AddCall(<<"m","a","i","l">>, Undefined, Some(<<"P","4">>), Undefined, Undefined, FALSE,
            FALSE) }

ConfigEditCalls ==
  { EditCall(Id(1), Undefined, Some(<<"u">>), FALSE, Undefined, FALSE, FALSE),
    EditCall(Id(1), Some(<<"p","o","s","t">>), Some(<<"b","o","g","u","s">>), FALSE, Undefined, FALSE,
             FALSE) }

ConfigImportCalls ==
  { ImportCall(Some(<<"i","n",".","j","s","o","n">>),
               [kind |-> "array",
                payload |-> <<RawTask(Some(<<"o","l","d">>), Undefined, p, "open")>>],
               TRUE, FALSE, FALSE, n) :
      p \in {Undefined, Some(<<"l","o","w">>), Some(<<"b","o","g","u","s">>)}, n \in NanoIds }

\* a config or sync command ran to its end with outcome r: writeConfig and
\* logAudit have happened when it returned, nothing is stored when it threw
RunConfig(c, r, entry) ==
  /\ r.logged => clock < MaxConfigClock
  /\ call' = c
  /\ ret' = [Outcome(r.err, state, r.logged, r.out) EXCEPT
               !.output = limitedOutput(r.output, FALSE, Undefined)]
  /\ config' = r.config
  /\ audit' = IF r.logged THEN Append(audit, entry) ELSE audit
  /\ clock' = IF r.logged THEN clock + 1 ELSE clock
  /\ UNCHANGED state

Config ==
  \E c \in ConfigCalls :
    RunConfig(c, configHandler(c, config),
              IF c.sub = Some(<<"s","e","t">>) THEN "config set"
              ELSE "config integrations")

Sync ==
  \E c \in SyncCalls : RunConfig(c, syncHandler(c, config), "sync")

ConfigAdd ==
  \E c \in ConfigAddCalls :
    /\ clock < MaxConfigClock
    /\ Finish(c, addHandler(c, config, state, clock + 1), "add")

ConfigEdit ==
  \E c \in ConfigEditCalls :
    /\ clock < MaxConfigClock
    /\ Finish(c, editHandler(c, state, clock + 1), "edit")

ConfigImport ==
  \E c \in ConfigImportCalls :
    /\ clock < MaxConfigClock
    /\ Finish(c, importHandler(c, state, clock + 1), "import")

NextConfig == Config \/ Sync \/ ConfigAdd \/ ConfigEdit \/ ConfigImport

SpecConfig == Init /\ [][NextConfig]_vars

(***************************************************************************)
(* The functions called on their own: call is a function with its inputs,  *)
(* ret holds its result once the call has returned.  The store is not      *)
(* touched.                                                                *)
(***************************************************************************)
Pending == [done |-> FALSE]

Result(out) == [done |-> TRUE, out |-> out]

\* every string made of 1..n parts, joined by one of the separators
RECURSIVE Joined(_, _, _)
Joined(parts, separators, n) ==
  IF n = 1 THEN parts
  ELSE Joined(parts, separators, n - 1)
         \cup {t \o sep \o w : t \in Joined(parts, separators, n - 1),
                               sep \in separators, w \in parts}

TitleWords ==
  {<<"p","a","y">>, <<"#","w","o","r","k">>, <<"h","i","g","h">>, <<"h","i","g","h","l","y">>, <<"p","0">>, <<"p","5">>, <<"P","1">>, <<"M","a","r","c","h">>,
   <<"t","o","m","o","r","r","o","w">>}

\* titles whose hashtags hold a priority word, a capital or a digit, or
\* stand against other text
TagTitles ==
  {<<"#","h","i","g","h">>, <<"#","H","i","g","h"," ","p","a","y">>, <<"p","a","y"," ","#","p","1">>, <<"#","W","o","r","k"," ","#","w","o","r","k">>, <<"m","a","i","l","#","u","r","g","e","n","t"," ","x">>,
   <<"#","a","1","_","b"," ","#","A","1","_","B"," ","l","o","w">>, <<"#"," ","h","i","g","h">>, <<"#">>, <<"p","a","y"," ","#","2","0","2","4"," ","#","w","o","r","k","#","h","o","m","e">>,
   <<"c","a","l","l"," ","#","m","o","m"," ","t","o","m","o","r","r","o","w">>}

\* titles with a word that holds a priority token as a substring in front of
\* the token itself
SubstringTitles ==
  {<<"h","i","g","h","l","i","g","h","t"," ","r","e","p","o","r","t"," ","h","i","g","h">>, <<"p","l","o","w"," ","f","i","e","l","d"," ","l","o","w">>, <<"H","i","g","h"," ","h","i","g","h","l","i","g","h","t">>,
   <<"s","h","o","p"," ","p","1"," ","p","1">>, <<"u","r","g","e","n","t","l","y"," ","c","a","l","l"," ","m","o","m"," ","u","r","g","e","n","t">>}

\* titles of up to MaxTitleWords words, separated by one space or by two
Titles ==
  Joined(TitleWords, {<<" ">>, <<" "," ">>}, MaxTitleWords)
    \cup TagTitles \cup SubstringTitles

DurationTokens ==
  {<<"+","1","d">>, <<"-","3","d">>, <<"2","W">>, <<"1","m">>, <<"1","y">>, <<"3","x">>, <<"a","b">>, <<" ">>, <<"7">>, <<"+">>,
   <<"d">>, <<"8","0","0","0","y">>}

\* duration strings: the empty string and the concatenations of up to
\* MaxDurationTokens tokens
Durations == {<<>>} \cup Joined(DurationTokens, {<<>>}, MaxDurationTokens)

\* the current date handed to applySnooze
SnoozeDates ==
  {Undefined, Some(<<>>), Some(<<"2","0","2","4","-","0","1","-","0","1">>), Some(<<"2","0","2","4","-","0","1","-","3","1">>),
   Some(<<"2","0","2","4","-","0","2","-","3","0">>), Some(<<"n","e","x","t"," ","w","e","e","k">>), Some(<<"1","0","0","2","4","-","0","1","-","0","1">>)}

RepeatCounts == {<<"1">>, <<"2">>, <<"1","0">>, <<"8","0","0","0">>, <<"1","0","0","0","0","0">>}

RepeatWords ==
  {<<"d","a","y">>, <<"d","a","y","s">>, <<"w","e","e","k">>, <<"w","e","e","k","s">>, <<"m","o","n","t","h">>, <<"m","o","n","t","h","s">>, <<"y","e","a","r">>,
   <<"y","e","a","r","s">>, <<"M","o","n","t","h">>, <<"W","E","E","K","S">>, <<"d","a","y","s","s">>, <<"f","o","r","t","n","i","g","h","t">>, <<"d">>}

\* repeat specs: count, spacing and unit word, and some of no such form
Repeats ==
  {Some(c \o sep \o w) : c \in RepeatCounts, sep \in {<<>>, <<" ">>, <<" "," ">>},
                         w \in RepeatWords}
  \cup {Undefined, Some(<<>>), Some(<<"w","e","e","k","l","y">>), Some(<<"b","o","g","u","s">>),
        Some(<<" ","1"," ","d","a","y">>), Some(<<"1"," ","d","a","y"," ">>), Some(<<"-","1"," ","d","a","y">>), Some(<<"d","a","y">>)}

BaseDates ==
  {Undefined, Some(<<>>), Some(<<"2","0","2","4","-","0","1","-","0","1">>), Some(<<"2","0","2","4","-","0","1","-","3","1">>),
   Some(<<"2","0","2","4","-","0","2","-","2","9">>), Some(<<"2","0","2","3","-","1","2","-","3","1">>), Some(<<"2","0","2","4","-","0","2","-","3","0">>),
   Some(<<"t","o","m","o","r","r","o","w">>)}

PriorityInputs ==
  {Undefined, Some(<<>>), Some(<<" ">>), Some(<<"p","5">>), Some(<<"p">>),
   Some(<<"l","o","w","e","s","t">>), Some(<<"m","e","d","i","u","m"," ","h","i","g","h">>), Some(<<"x">>), Some(<<"P","2">>),
   Some(<<"C","r","i","t","i","c","a","l">>), Some(<<"L","O","W">>)}
  \cup {Some(pre \o w \o post) :
          pre \in {<<>>, <<" ">>}, post \in {<<>>, <<" ">>},
          w \in {<<"l">>, <<"l","o","w">>, <<"m">>, <<"m","e","d">>, <<"m","e","d","i","u","m">>, <<"p","3">>, <<"h">>, <<"h","i">>,
                 <<"h","i","g","h">>, <<"p","2">>, <<"u">>, <<"u","r","g","e","n","t">>, <<"c","r","i","t","i","c","a","l">>, <<"p","0">>, <<"p","1">>,
                 <<"p","4">>}}

\* the texts handed to parseDateInput: calendar dates, strings of that shape
\* that name no day, and phrases of the recognizer
DateInputs ==
  {<<"2","0","2","6","-","0","2","-","0","1">>, <<"2","0","2","4","-","0","2","-","2","9">>, <<"0","0","0","1","-","0","1","-","0","1">>, <<"9","9","9","9","-","1","2","-","3","1">>, <<"2","0","2","6","-","1","1","-","0","6">>,
   <<"2","0","2","4","-","0","2","-","3","0">>, <<"2","0","2","3","-","0","2","-","2","9">>, <<"2","0","2","4","-","1","3","-","0","1">>, <<"2","0","2","4","-","0","0","-","1","0">>, <<"2","0","2","4","-","0","1","-","0","0">>,
   <<"t","o","m","o","r","r","o","w">>, <<"M","a","r","c","h">>, <<"T","o","m","o","r","r","o","w">>, <<"M","a","r","c","h"," ","t","o","m","o","r","r","o","w">>, <<"t","o","m","o","r","r","o","w"," ","M","a","r","c","h">>,
   <<"m","a","r","c","h"," "," ","M","a","r","c","h">>, <<"s","o","o","n">>, <<"m","a","r","c","h","i","n","g">>, <<>>}

\* the reference instants handed to parseDateInput
References == {Today, MakeDate(2024, 1, 10), MakeDate(1999, 12, 31)}

\* the stored dates handed to formatForDisplay
DisplayInputs ==
  {Undefined, Some(<<>>), Some(<<"-">>), Some(<<"2","0","2","4","-","0","1","-","0","1">>), Some(<<"2","0","2","4","-","0","2","-","2","9">>),
   Some(<<"9","9","9","9","-","1","2","-","3","1">>), Some(<<"0","0","0","1","-","0","1","-","0","1">>), Some(<<"2","0","2","4","-","0","2","-","3","0">>),
   Some(<<"n","o","t","-","a","-","d","a","t","e">>), Some(<<"n","e","x","t"," ","w","e","e","k">>), Some(<<"1","0","0","2","4","-","0","1","-","0","1">>),
   Some(<<" ">>), Some(<<"2","0","2","4","-","1","-","1">>)}

ParseDateInputCalls ==
  {[op |-> "parseDateInput", input |-> i, reference |-> r] :
     i \in DateInputs, r \in References}

FormatForDisplayCalls ==
  {[op |-> "formatForDisplay", input |-> i] : i \in DisplayInputs}

ExtractCalls == {[op |-> "extractMetadataFromTitle", title |-> t] : t \in Titles}

ApplyPriorityCalls == {[op |-> "applyPriority", input |-> i] : i \in PriorityInputs}

ParseDurationCalls == {[op |-> "parseDuration", input |-> d] : d \in Durations}

ApplySnoozeCalls ==
  {[op |-> "applySnooze", date |-> a, delta |-> d] :
     a \in SnoozeDates, d \in Durations}

SummarizeCalls ==
  {[op |-> "summarizeNextOccurrences", repeat |-> r, base |-> b] :
     r \in Repeats, b \in BaseDates}

InitFn ==
  /\ state = defaultState
  /\ config = defaultConfig
  /\ audit = <<>>
  /\ clock = 0
  /\ \/ call \in ExtractCalls
     \/ call \in ApplyPriorityCalls
     \/ call \in ParseDurationCalls
     \/ call \in ApplySnoozeCalls
     \/ call \in SummarizeCalls
     \/ call \in ParseDateInputCalls
     \/ call \in FormatForDisplayCalls
  /\ ret = Pending

Return(out) ==
  /\ ~ret.done
  /\ ret' = Result(out)
  /\ UNCHANGED <<state, config, audit, clock, call>>

CallExtract ==
  /\ call.op = "extractMetadataFromTitle"
  /\ Return(extractMetadataFromTitle(call.title, Today))

CallApplyPriority ==
  /\ call.op = "applyPriority"
  /\ Return(applyPriority(call.input))

CallParseDuration ==
  /\ call.op = "parseDuration"
  /\ Return(parseDuration(call.input))

CallApplySnooze ==
  /\ call.op = "applySnooze"
  /\ Return(applySnooze(call.date, call.delta, Today))

CallSummarize ==
  /\ call.op = "summarizeNextOccurrences"
  /\ Return(summarizeNextOccurrences(call.repeat, call.base))

CallParseDateInput ==
  /\ call.op = "parseDateInput"
  /\ Return(parseDateInput(call.input, call.reference))

CallFormatForDisplay ==
  /\ call.op = "formatForDisplay"
  /\ Return(formatForDisplay(call.input))

NextFn ==
  \/ CallExtract
  \/ CallApplyPriority
  \/ CallParseDuration
  \/ CallApplySnooze
  \/ CallSummarize
  \/ CallParseDateInput
  \/ CallFormatForDisplay

SpecFn == InitFn /\ [][NextFn]_vars

(***************************************************************************)
(* Overlapping commands.  The handlers are async functions: the REPL's     *)
(* "line" listener does not wait for the command of the line before, and   *)
(* two CLI processes share data.json.  Each command in flight reads the    *)
(* store into an object of its own, changes that object and writes it back, *)
(* and other commands may run between any two of its awaits.  Here call    *)
(* holds the command in flight of each process with its position, and ret  *)
(* the tasks that a "Task added" line was printed for.                     *)
(***************************************************************************)
\* the number of add commands in one run of overlapping commands
MaxRaceClock == 3

\* the REPL lines, or CLI processes, that can be under way at once
Procs == {1, 2}

RaceAddCalls ==
  { AddCall(<<"m","a","i","l">>, Undefined, Undefined, Undefined, Undefined, FALSE, FALSE),
    AddCall(<<"P","a","y"," ","r","e","n","t"," ","#","f","i","n","a","n","c","e"," ","h","i","g","h">>, Undefined, Undefined, Undefined,
            Undefined, FALSE, FALSE),
    AddCall(<<" "," ">>, Undefined, Undefined, Undefined, Undefined, FALSE, FALSE) }

\* no command under way
Idle == [pc |-> "idle", args |-> [op |-> "none"], outcome |-> Failed("none", defaultState)]

InitRace ==
  /\ state = defaultState
  /\ config = defaultConfig
  /\ audit = <<>>
  /\ clock = 0
  /\ call = [p \in Procs |-> Idle]
  /\ ret = [reported |-> {}]

\* runCommand(argv) is called and the handler waits for readConfig and
\* readState
RaceBegin(p) ==
  \E c \in RaceAddCalls :
    /\ call[p].pc = "idle"
    /\ clock + Cardinality({q \in Procs : call[q].pc = "reading"})
         < MaxRaceClock
    /\ call' = [call EXCEPT ![p] = [pc |-> "reading", args |-> c,
                                    outcome |-> Failed("none", defaultState)]]
    /\ UNCHANGED <<state, config, audit, clock, ret>>

\* readState resolves with what data.json holds now; the handler takes its
\* timestamp and runs on to its throw or to its call of writeState with the
\* state object it changed
RaceReadState(p) ==
  /\ call[p].pc = "reading"
  /\ call' = [call EXCEPT ![p] =
       Let(addHandler(call[p].args, config, state, clock + 1), LAMBDA r :
         [pc |-> IF r.err = "none" THEN "writing" ELSE "idle",
          args |-> call[p].args, outcome |-> r])]
  /\ clock' = clock + 1
  /\ UNCHANGED <<state, config, audit, ret>>

\* writeFile of writeState replaces data.json by the state object of this
\* command
RaceWriteState(p) ==
  /\ call[p].pc = "writing"
  /\ state' = call[p].outcome.state
  /\ call' = [call EXCEPT ![p].pc = "logging"]
  /\ UNCHANGED <<config, audit, clock, ret>>

\* logAudit appends its line
RaceLogAudit(p) ==
  /\ call[p].pc = "logging"
  /\ audit' = Append(audit, "add")
  /\ call' = [call EXCEPT ![p].pc = "returning"]
  /\ UNCHANGED <<state, config, clock, ret>>

\* the handler returns and "Task added" is printed for the task it pushed
RaceReturn(p) ==
  /\ call[p].pc = "returning"
  /\ ret' = [reported |-> ret.reported \cup
               {call[p].outcome.state.tasks[Len(call[p].outcome.state.tasks)]}]
  /\ call' = [call EXCEPT ![p].pc = "idle"]
  /\ UNCHANGED <<state, config, audit, clock>>

NextRace ==
  \E p \in Procs :
    \/ RaceBegin(p)
    \/ RaceReadState(p)
    \/ RaceWriteState(p)
    \/ RaceLogAudit(p)
    \/ RaceReturn(p)

SpecRace == InitRace /\ [][NextRace]_vars

(***************************************************************************)
(* Properties                                                              *)
(***************************************************************************)
\* an optional stored date is absent or has the exact shape YYYY-MM-DD
CanonicalOrAbsent(o) == ~o.has \/ IsCanonicalShape(o.v)

\* w is written in t, in any letter case, as a whole word
ContainsWord(t, w) == \E i \in 1..Len(t) : WholeWordAt(t, w, i)

NoDatePhrase(t) == \A w \in DatePhrases : ~ContainsWord(t, w)

NoHashtag(t) ==
  \A i \in 1..Len(t) : ~(t[i] = "#" /\ i < Len(t) /\ IsWordChar(t[i + 1]))

\* the priority tokens the specification lists for the extractor
ListedPriorityTokens ==
  {<<"p","1">>, <<"p","2">>, <<"p","3">>, <<"p","4">>, <<"l","o","w">>, <<"m","e","d","i","u","m">>, <<"h","i","g","h">>, <<"u","r","g","e","n","t">>}

\* the priority tokens the extractor acts on
ActedPriorityTokens == ListedPriorityTokens \cup {<<"p","0">>}

\* the words the extractor's pattern matches: p and a digit, or a level name
PatternWords ==
  {<<"p", DigitChars[i]>> : i \in 1..10}
    \cup {<<"l","o","w">>, <<"m","e","d","i","u","m">>, <<"h","i","g","h">>, <<"u","r","g","e","n","t">>}

\* a title with no date phrase, no #word and none of the tokens
PlainTitle(t, tokens) ==
  /\ NoDatePhrase(t)
  /\ NoHashtag(t)
  /\ \A w \in tokens : ~ContainsWord(t, w)

\* the positions of t that survive whitespace normalisation: every
\* non-whitespace character, and the first character of every whitespace run
\* that has text on both sides
KeptPositions(t) ==
  {i \in 1..Len(t) :
     \/ ~IsSpace(t[i])
     \/ /\ i > 1
        /\ ~IsSpace(t[i - 1])
        /\ \E j \in i..Len(t) : ~IsSpace(t[j])}

\* the k-th smallest element of S
NthOf(S, k) == CHOOSE i \in S : Cardinality({j \in S : j < i}) = k - 1

\* t trimmed, with every run of two or more whitespace characters replaced
\* by one space
SpacesNormalized(t) ==
  [k \in 1..Cardinality(KeptPositions(t)) |->
     LET i == NthOf(KeptPositions(t), k)
     IN  IF IsSpace(t[i]) /\ i < Len(t) /\ IsSpace(t[i + 1]) THEN " " ELSE t[i]]

\* the title as the priority step of the extractor receives it
TagStripped(title) ==
  trim(collapseSpaces(removeHashtags(extractDate(title, Today).cleanTitle, 1)))

\* the leftmost word of u that the extractor's pattern matches, lowercased
\* (the empty string when there is none)
LeftmostPatternWord(u) ==
  LET at == {i \in 1..Len(u) : \E w \in PatternWords : WholeWordAt(u, w, i)}
  IN  IF at = {} THEN <<>>
      ELSE CHOOSE w \in PatternWords : WholeWordAt(u, w, MinOf(at))

\* the keys of the priority table
TableKeys ==
  {<<"l">>, <<"l","o","w">>, <<"m">>, <<"m","e","d">>, <<"m","e","d","i","u","m">>, <<"p","3">>, <<"h">>, <<"h","i">>, <<"h","i","g","h">>, <<"p","2">>,
   <<"u">>, <<"u","r","g","e","n","t">>, <<"c","r","i","t","i","c","a","l">>, <<"p","0">>, <<"p","1">>, <<"p","4">>}

\* the priority table: l, low, p4 -> low; m, med, medium, p3 -> medium;
\* h, hi, high, p2 -> high; u, urgent, critical, p0, p1 -> urgent
TableEntry(w) ==
  IF w \in {<<"l">>, <<"l","o","w">>, <<"p","4">>} THEN <<"l","o","w">>
  ELSE IF w \in {<<"m">>, <<"m","e","d">>, <<"m","e","d","i","u","m">>, <<"p","3">>} THEN <<"m","e","d","i","u","m">>
  ELSE IF w \in {<<"h">>, <<"h","i">>, <<"h","i","g","h">>, <<"p","2">>} THEN <<"h","i","g","h">>
  ELSE <<"u","r","g","e","n","t">>

\* s holds a duration token: digits followed by one of d, w, m, y in any
\* letter case (the sign before the digits is optional)
HasDurationToken(s) ==
  \E i \in 1..Len(s) :
    /\ IsDigit(s[i])
    /\ i + 1 <= Len(s)
    /\ s[i + 1] \in {"d", "w", "m", "y", "D", "W", "M", "Y"}

\* the call returned
Returns(op) == call.op = op /\ ret.done

\* C1: after any sequence of add, edit, snooze, done and import commands
\* from the empty store, every stored task's due and snoozedUntil is absent
\* or a string of the exact shape YYYY-MM-DD.
C1_StoredDatesCanonical ==
  \A k \in 1..Len(state.tasks) :
    /\ CanonicalOrAbsent(state.tasks[k].due)
    /\ CanonicalOrAbsent(state.tasks[k].snoozedUntil)

\* C2: for every title that is non-empty after trimming,
\* extractMetadataFromTitle returns a non-empty cleaned title.
C2_CleanTitleNeverEmpty ==
  (Returns("extractMetadataFromTitle") /\ trim(call.title) # <<>>)
    => ret.out.title # <<>>

\* C3 (as amended): for every title with no date phrase, no #word and no
\* priority token (p0..p4, low, medium, high, urgent as a whole word),
\* extractMetadataFromTitle returns the title trimmed and with every run of
\* two or more whitespace characters replaced by one space (so the title
\* itself when it has no such run), with due absent, ambiguous false,
\* priority absent and no tags.
C3_PlainTitleSpacesNormalized ==
  (Returns("extractMetadataFromTitle")
     /\ PlainTitle(call.title, ActedPriorityTokens))
    => /\ ret.out.title = SpacesNormalized(call.title)
       /\ (\A i \in 1..Len(call.title) :
             IsSpace(call.title[i])
               => i > 1 /\ i < Len(call.title) /\ ~IsSpace(call.title[i + 1]))
            => ret.out.title = call.title
       /\ ~ret.out.due.has
       /\ ~ret.out.ambiguous
       /\ ~ret.out.priority.has
       /\ ret.out.tags = <<>>

\* C3 reached: a plain title with a run of spaces came back changed
C3_RunOfSpacesCollapsed ==
  /\ Returns("extractMetadataFromTitle")
  /\ PlainTitle(call.title, ActedPriorityTokens)
  /\ \E i \in 1..(Len(call.title) - 1) :
       IsSpace(call.title[i]) /\ IsSpace(call.title[i + 1])
  /\ ret.out.title # call.title

\* C3 (as stated): for every title with no date phrase, no #word and no
\* priority token, extractMetadataFromTitle returns the title character for
\* character, with due absent, ambiguous false, priority absent and no tags.
C3_PlainTitleUnchanged ==
  (Returns("extractMetadataFromTitle")
     /\ PlainTitle(call.title, ListedPriorityTokens))
    => /\ ret.out.title = call.title
       /\ ~ret.out.due.has
       /\ ~ret.out.ambiguous
       /\ ~ret.out.priority.has
       /\ ret.out.tags = <<>>

\* C4 (as amended): applyPriority returns medium for an absent or empty
\* input; every other input is trimmed and lowercased and then mapped by
\* the table, and fails with an invalid-priority error when it is no key of
\* the table.
C4_TableAfterTrimAndLowercase ==
  Returns("applyPriority")
    => IF ~call.input.has \/ call.input.v = <<>>
         THEN ret.out = Returned(<<"m","e","d","i","u","m">>)
       ELSE IF toLowerCase(trim(call.input.v)) \in TableKeys
         THEN ret.out = Returned(TableEntry(toLowerCase(trim(call.input.v))))
       ELSE ret.out.err = "InvalidPriority"

\* C4 reached: the empty string was given and medium came back
C4_EmptyInputIsMedium ==
  /\ Returns("applyPriority")
  /\ call.input = Some(<<>>)
  /\ ret.out = Returned(<<"m","e","d","i","u","m">>)

\* C4 (as stated): applyPriority maps the keys of the table as the table
\* says and fails with an invalid-priority error on every other string.
C4_ExactlyTheTable ==
  (Returns("applyPriority") /\ call.input.has)
    => IF call.input.v \in TableKeys
         THEN ret.out = Returned(TableEntry(call.input.v))
         ELSE ret.out.err = "InvalidPriority"

\* C5 (as amended): extractMetadataFromTitle looks at the leftmost whole
\* word of the tag-stripped title that is p0..p9, low, medium, high or
\* urgent in any letter case: when that word is p0..p4 or a level name the
\* priority is the table's entry for it (p0 and p1 urgent, p2 high, p3
\* medium, p4 low); when there is no such word, or it is p5..p9, the
\* priority is absent and the title is not changed by the priority step.
C5_PriorityFromLeftmostPatternWord ==
  Returns("extractMetadataFromTitle")
    => IF LeftmostPatternWord(TagStripped(call.title)) \in ActedPriorityTokens
         THEN ret.out.priority
                = Some(TableEntry(LeftmostPatternWord(TagStripped(call.title))))
         ELSE /\ ~ret.out.priority.has
              /\ ret.out.title = TagStripped(call.title)

\* C5 reached: the leftmost pattern word was p0 and the priority is urgent
C5_PZeroIsUrgent ==
  /\ Returns("extractMetadataFromTitle")
  /\ LeftmostPatternWord(TagStripped(call.title)) = <<"p","0">>
  /\ ret.out.priority = Some(<<"u","r","g","e","n","t">>)

\* C5 (as stated): extractMetadataFromTitle sets a priority only when the
\* tag-stripped title holds one of p1..p4, low, medium, high, urgent as a
\* whole word in any letter case, and then by the table; with none of these
\* words (p0 and p5..p9 included) the priority is absent and the title is
\* not changed by the priority step.
C5_PriorityOnlyFromListedTokens ==
  Returns("extractMetadataFromTitle")
    => /\ ret.out.priority.has
            => \E w \in ListedPriorityTokens :
                 /\ ContainsWord(TagStripped(call.title), w)
                 /\ ret.out.priority.v = TableEntry(w)
       /\ (\A w \in ListedPriorityTokens :
             ~ContainsWord(TagStripped(call.title), w))
            => /\ ~ret.out.priority.has
               /\ ret.out.title = TagStripped(call.title)

\* the canonical text of base advanced by amount units in one calendar add
Advanced(base, unit, amount) ==
  formatISO(add(parseISO(base), repeatInterval(toLowerCase(unit), amount))).val

\* the repeat spec and the base of the call are given, the base parses and
\* the spec matches the pattern
ProjectsOccurrences ==
  /\ Truthy(call.repeat)
  /\ Truthy(call.base)
  /\ isValid(parseISO(call.base.v))
  /\ repeatMatch(call.repeat.v).matched

\* C6: for every repeat spec that matches the pattern and every valid base
\* date, the k-th date returned by summarizeNextOccurrences (k = 1, 2, 3) is
\* the base date advanced by k*n units.
C6_KthOccurrenceIsBasePlusKTimesN ==
  (Returns("summarizeNextOccurrences") /\ ProjectsOccurrences)
    => /\ ret.out.err = "none"
       /\ Len(ret.out.val) = 3
       /\ \A k \in 1..3 :
            ret.out.val[k]
              = Advanced(call.base.v, repeatMatch(call.repeat.v).unit,
                         k * repeatMatch(call.repeat.v).count)

\* C7: summarizeNextOccurrences never throws and returns the empty list or
\* exactly three canonical dates; the empty list exactly when the repeat
\* spec is absent, the base is absent, the base does not parse or the spec
\* does not match the pattern.
C7_EmptyOrThreeCanonicalDates ==
  Returns("summarizeNextOccurrences")
    => /\ ret.out.err = "none"
       /\ \/ ret.out.val = <<>>
          \/ /\ Len(ret.out.val) = 3
             /\ \A k \in 1..3 : IsCanonicalShape(ret.out.val[k])
       /\ (ret.out.val = <<>>) <=> ~ProjectsOccurrences

\* a snooze command is run on a stored task with a duration given
SnoozeOnTask ==
  /\ call'.op = "snooze"
  /\ call'.id.has
  /\ Truthy(call'.duration)
  /\ findTask(state, call'.id.n) # 0

\* the due date of that task as the command reads it
SnoozedDue == state.tasks[findTask(state, call'.id.n)].due

\* C8 (as amended): when the task's current date is a non-empty string that
\* does not parse, snooze fails with the invalid-date error whatever the
\* delta is and the store (the task's due, snoozedUntil, updatedAt and
\* history) is left as it was; when the current date is absent or the empty
\* string the command anchors on the current moment and does not fail with
\* the invalid-date error.
C8_UnparseableDateFailsAndKeepsTask ==
  [][SnoozeOnTask =>
       /\ (Truthy(SnoozedDue) /\ ~isValid(parseISO(SnoozedDue.v)))
            => (ret'.err = "InvalidDate" /\ state' = state)
       /\ ~Truthy(SnoozedDue) => ret'.err # "InvalidDate"]_vars

\* C8 reached: a snooze with a delta that is no duration, on a task whose
\* stored date does not parse, failed with the invalid-date error
C8_InvalidDateBeforeDuration ==
  /\ call.op = "snooze"
  /\ ret.err = "InvalidDate"
  /\ call.duration = Some(<<"a","b","c">>)
  /\ findTask(state, call.id.n) # 0
  /\ Truthy(state.tasks[findTask(state, call.id.n)].due)
  /\ ~isValid(parseISO(state.tasks[findTask(state, call.id.n)].due.v))

\* C8 (as stated): when the task's current date is present and does not
\* parse, snooze fails with the invalid-date error whatever the delta is and
\* the task is left as it was; when the current date is absent it does not
\* fail with the invalid-date error.
C8_PresentUnparseableDateFails ==
  [][SnoozeOnTask =>
       /\ (SnoozedDue.has /\ ~isValid(parseISO(SnoozedDue.v)))
            => (ret'.err = "InvalidDate" /\ state' = state)
       /\ ~SnoozedDue.has => ret'.err # "InvalidDate"]_vars

C10_OneCalendarAddCanonical ==
  (Returns("applySnooze")
     /\ call.date.has
     /\ isValid(parseISO(call.date.v))
     /\ HasDurationToken(call.delta))
    => /\ ret.out.err = "none"
       /\ IsCanonicalShape(ret.out.val)
       /\ ret.out.val
            = formatISO(addDays(
                addMonths(parseISO(call.date.v),
                  12 * AmountOrZero(parseDuration(call.delta).val.years)
                    + AmountOrZero(parseDuration(call.delta).val.months)),
                7 * AmountOrZero(parseDuration(call.delta).val.weeks)
                  + AmountOrZero(parseDuration(call.delta).val.days))).val

\* s names a day of the calendar in the form YYYY-MM-DD
IsCalendarDate(s) ==
  /\ IsCanonicalShape(s)
  /\ parseDigits(SubSeq(s, 6, 7)) \in 1..12
  /\ parseDigits(SubSeq(s, 9, 10))
       \in 1..DaysInMonth(parseDigits(SubSeq(s, 1, 4)),
                          parseDigits(SubSeq(s, 6, 7)))

\* C11: for every valid calendar-date string YYYY-MM-DD, parseDateInput
\* returns that same string with ambiguous = false, whatever the reference
\* instant is; the recognizer, which knows no such string, has no part in it.
C11_IsoFastPathIgnoresReference ==
  (Returns("parseDateInput") /\ IsCalendarDate(call.input))
    => ret.out = [err |-> "none", date |-> call.input, ambiguous |-> FALSE]

\* C11 reached: a calendar date came back as itself under a reference other
\* than the current day
C11_SameDateUnderAnotherReference ==
  /\ Returns("parseDateInput")
  /\ call.input = <<"2","0","2","6","-","0","2","-","0","1">>
  /\ call.reference = MakeDate(1999, 12, 31)
  /\ ret.out.date = <<"2","0","2","6","-","0","2","-","0","1">>
  /\ ~ret.out.ambiguous

\* C12 (as amended): formatForDisplay returns "-" for an absent date and for
\* the empty string, returns every non-empty string that does not parse as a
\* date unchanged, and returns every canonical YYYY-MM-DD string as itself;
\* it never throws, and formatForDisplay applied to its own result returns
\* that result.
C12_PlaceholderPassThroughIdempotent ==
  Returns("formatForDisplay")
    => /\ ret.out.err = "none"
       /\ ~Truthy(call.input) => ret.out.val = <<"-">>
       /\ (Truthy(call.input) /\ ~IsCalendarDate(call.input.v))
            => ret.out.val = call.input.v
       /\ (call.input.has /\ IsCanonicalShape(call.input.v))
            => ret.out.val = call.input.v
       /\ formatForDisplay(Some(ret.out.val)) = ret.out

\* C12 reached: the empty string was rendered as the placeholder
C12_EmptyStringIsPlaceholder ==
  /\ Returns("formatForDisplay")
  /\ call.input = Some(<<>>)
  /\ ret.out.val = <<"-">>

\* C12 (as stated): formatForDisplay returns "-" for an absent date, returns
\* a string that does not parse as a date unchanged, and returns every
\* canonical YYYY-MM-DD string as itself; formatForDisplay applied to its own
\* result returns that result.
C12_UnparseableStringUnchanged ==
  Returns("formatForDisplay")
    => /\ ~call.input.has => ret.out.val = <<"-">>
       /\ (call.input.has /\ ~IsCalendarDate(call.input.v))
            => ret.out.val = call.input.v
       /\ (call.input.has /\ IsCanonicalShape(call.input.v))
            => ret.out.val = call.input.v
       /\ formatForDisplay(Some(ret.out.val)) = ret.out

\* the caller of export or import gave consent: --yes, or the answer yes to
\* the prompt of a terminal
Consented(c) == c.yes \/ (c.tty /\ c.confirm)

\* C13: export returns no task data and import leaves the store as it was
\* unless consent was given: with neither --yes nor an interactive yes the
\* command fails, returns nothing, and tasks and nextId are what they were.
C13_NoConsentNoExportNoImport ==
  [][(call'.op \in {"export", "import"} /\ ~Consented(call'))
       => /\ ret'.err # "none"
          /\ ret'.output = <<>>
          /\ ret'.shown = <<>>
          /\ state' = state]_vars

\* C13 reached: on a store that holds tasks, an export at a terminal was
\* answered no and was cancelled
C13_ExportCancelledAtPrompt ==
  /\ call.op = "export"
  /\ ~call.yes
  /\ call.tty
  /\ ~call.confirm
  /\ Len(state.tasks) > 0
  /\ ret.err = "Cancelled"

\* the command of the call was given --verbose
IsVerbose(c) == c.op \in ReadCommands /\ c.verbose

\* C14: the output runCommand returns for any command has fewer than 40
\* lines unless --verbose was supplied (list, search and export with
\* --format json, csv or md included).
C14_FewerThanFortyLinesUnlessVerbose ==
  (call.op # "start" /\ ret.err = "none" /\ ~IsVerbose(call))
    => TextLines(ret.output) < MAX_DEFAULT_LINES

\* the name a command is logged under
AuditName(c) == IF c.op = "done" /\ c.undo THEN "done --undo" ELSE c.op

\* C15: every command that completes successfully appends exactly one entry
\* to the audit log (for a command that changes the store, together with the
\* write); a command that fails appends none.
C15_OneAuditEntryPerSuccess ==
  [][IF ret'.err = "none"
       THEN audit' = Append(audit, AuditName(call'))
       ELSE audit' = audit]_vars

\* the arguments of the default list
DefaultList == ListCall(Undefined, Undefined, NoCount, Undefined, Undefined, FALSE)

\* the task is among the tasks the list shows on the store
ListShows(args, st, task) ==
  \E k \in 1..Len(listedTasks(args, st)) : listedTasks(args, st)[k] = task

ListShowsId(args, st, id) ==
  \E k \in 1..Len(listedTasks(args, st)) : listedTasks(args, st)[k].id = id

DateStripped(title) == extractDate(title, Today).cleanTitle

\* the last position of the run of word characters that starts at i
WordRunEnd(t, i) ==
  MaxOf({e \in i..Len(t) : \A j \in i..e : IsWordChar(t[j])})

\* the '#word' tokens of t, each lowercased and without the '#'
HashtagWords(t) ==
  {toLowerCase(SubSeq(t, i + 1, WordRunEnd(t, i + 1))) :
     i \in {i \in 1..(Len(t) - 1) : t[i] = "#" /\ IsWordChar(t[i + 1])}}

\* every priority token written in t as a whole word stands right behind a '#'
PriorityWordsOnlyInHashtags(t) ==
  \A w \in ActedPriorityTokens : \A i \in 1..Len(t) :
    WholeWordAt(t, w, i) => (i > 1 /\ t[i - 1] = "#")

\* C18: extractMetadataFromTitle returns as tags exactly the '#word' tokens
\* of the date-stripped title, lowercased and without the '#', no tag twice;
\* no such token is left in the cleaned title; and a priority word that
\* occurs only inside hashtag tokens does not set the priority.
C18_TagsAreTheDistinctHashtagWords ==
  Returns("extractMetadataFromTitle")
    => /\ {ret.out.tags[k] : k \in 1..Len(ret.out.tags)}
            = HashtagWords(DateStripped(call.title))
       /\ \A j, k \in 1..Len(ret.out.tags) :
            j < k => ret.out.tags[j] # ret.out.tags[k]
       /\ NoHashtag(ret.out.title)
       /\ PriorityWordsOnlyInHashtags(DateStripped(call.title))
            => ~ret.out.priority.has

\* the positions of s that end a duration token: a unit letter right behind
\* a digit
TokenEnds(s) ==
  {e \in 2..Len(s) : toLowerChar(s[e]) \in UnitLetters /\ IsDigit(s[e - 1])}

\* the first digit of the number that ends right before position e
NumberStart(s, e) ==
  MinOf({i \in 1..(e - 1) : \A j \in i..(e - 1) : IsDigit(s[j])})

\* the signed integer of the token that ends at e
TokenValue(s, e) ==
  IF NumberStart(s, e) > 1 /\ s[NumberStart(s, e) - 1] = "-"
    THEN 0 - parseDigits(SubSeq(s, NumberStart(s, e), e - 1))
    ELSE parseDigits(SubSeq(s, NumberStart(s, e), e - 1))

\* the sum of the token values over the token ends E
RECURSIVE TokenSum(_, _)
TokenSum(s, E) ==
  IF E = {} THEN 0
  ELSE TokenValue(s, MinOf(E)) + TokenSum(s, E \ {MinOf(E)})

\* what the tokens of unit u in s add up to: absent when there is none
UnitTotal(s, u) ==
  IF {e \in TokenEnds(s) : toLowerChar(s[e]) = u} = {} THEN NoAmount
  ELSE Amount(TokenSum(s, {e \in TokenEnds(s) : toLowerChar(s[e]) = u}))

\* C19: for each unit d, w, m, y parseDuration returns the signed sum of the
\* integers of all tokens of that unit, whatever their order, and leaves
\* absent every unit that has no token.
C19_SignedSumForEachUnit ==
  (Returns("parseDuration") /\ ret.out.err = "none")
    => /\ ret.out.val.days = UnitTotal(call.input, "d")
       /\ ret.out.val.weeks = UnitTotal(call.input, "w")
       /\ ret.out.val.months = UnitTotal(call.input, "m")
       /\ ret.out.val.years = UnitTotal(call.input, "y")

\* C19 reached: two tokens of one unit with opposite signs were summed and
\* the other units were left absent
C19_OppositeSignsSummed ==
  /\ Returns("parseDuration")
  /\ call.input = <<"+","1","d","-","3","d">>
  /\ ret.out.val.days = Amount(-2)
  /\ ret.out.val.weeks = NoAmount
  /\ ret.out.val.months = NoAmount
  /\ ret.out.val.years = NoAmount

\* the recognizer's result reports day, month and year as certain
AllCertain(result) ==
  result.certainDay /\ result.certainMonth /\ result.certainYear

\* C20: for input not taken by the ISO fast path, the ambiguous flag of
\* parseDateInput and of extractMetadataFromTitle is true exactly when the
\* recognizer's first candidate does not report day, month and year all as
\* certain, and the date is the date of that first candidate; the candidates
\* after the first have no part in either.
C20_FlagAndDateFromFirstCandidate ==
  /\ (Returns("parseDateInput")
        /\ ~IsCalendarDate(call.input)
        /\ Len(chronoParse(call.input, call.reference)) > 0)
       => /\ ret.out.ambiguous
               = ~AllCertain(chronoParse(call.input, call.reference)[1])
          /\ ret.out.date
               = formatISO(chronoParse(call.input, call.reference)[1].date).val
  /\ Returns("extractMetadataFromTitle")
       => IF Len(chronoParse(call.title, Today)) > 0
            THEN /\ ret.out.ambiguous
                      = ~AllCertain(chronoParse(call.title, Today)[1])
                 /\ ret.out.due
                      = Some(formatISO(chronoParse(call.title, Today)[1].date).val)
            ELSE ~ret.out.ambiguous /\ ~ret.out.due.has

\* C20 reached: a title whose first candidate is certain and whose second is
\* not came back unambiguous, with the date of the first
C20_UncertainSecondCandidateUnused ==
  /\ Returns("extractMetadataFromTitle")
  /\ call.title = <<"t","o","m","o","r","r","o","w"," ","M","a","r","c","h">>
  /\ ~ret.out.ambiguous
  /\ ret.out.due = Some(<<"2","0","2","6","-","1","1","-","0","7">>)

\* where the leftmost word of u that the extractor's pattern matches starts
LeftmostPatternStart(u) ==
  MinOf({i \in 1..Len(u) : \E w \in PatternWords : WholeWordAt(u, w, i)})

\* u without the n characters that start at position i
WithoutWordAt(u, i, n) == SubSeq(u, 1, i - 1) \o SubSeq(u, i + n, Len(u))

\* C21: when extractMetadataFromTitle recognizes a priority token, the text
\* it removes from the title is that whole-word occurrence and nothing else:
\* the cleaned title is the tag-stripped title without that occurrence
\* (whitespace normalised), so every other word, an earlier word that holds
\* the token as a substring included, is left intact.
C21_OnlyTheWholeWordRemoved ==
  (Returns("extractMetadataFromTitle") /\ ret.out.priority.has)
    => ret.out.title
         = SpacesNormalized(
             WithoutWordAt(TagStripped(call.title),
                           LeftmostPatternStart(TagStripped(call.title)),
                           Len(LeftmostPatternWord(TagStripped(call.title)))))

\* the command is 'config integrations enable <name> key=<token>'
EnablesWithKey(c, name) ==
  /\ c.op = "config"
  /\ c.sub = Some(<<"i","n","t","e","g","r","a","t","i","o","n","s">>)
  /\ Len(c.rest) = 3
  /\ c.rest[1] = <<"e","n","a","b","l","e">>
  /\ c.rest[2] = name
  /\ SubSeq(c.rest[3], 1, 4) = <<"k","e","y","=">>
  /\ Len(c.rest[3]) > 4

\* C22: 'sync --provider p' replies 'Sync queued for p' only when
\* integration p is enabled and has an API key stored, and 'integration
\* required' otherwise; and a 'sync --provider p' that comes right after a
\* successful 'config integrations enable p key=<token>' replies 'Sync
\* queued for p'.
C22_SyncQueuedAfterEnableWithKey ==
  [][(call'.op = "sync" /\ Truthy(call'.provider))
       => /\ ret'.out = (IF /\ call'.provider.v \in DOMAIN config.integrations
                            /\ config.integrations[call'.provider.v].enabled
                            /\ Truthy(config.integrations[call'.provider.v].apiKey)
                           THEN "Sync queued" ELSE "integration required")
          /\ (EnablesWithKey(call, call'.provider.v) /\ ret.err = "none")
               => ret'.out = "Sync queued"]_vars

\* C23: after any sequence of add, import, done, edit and snooze commands
\* run one after another from the default store, all task ids are pairwise
\* distinct and every task id is smaller than nextId.
C23_IdsDistinctAndBelowNextId ==
  \A j, k \in 1..Len(state.tasks) :
    /\ j # k => state.tasks[j].id # state.tasks[k].id
    /\ state.tasks[k].id < state.nextId

\* C23 reached: an import of two tasks came after an add, and the store
\* holds the three tasks with nextId 4
C23_TwoImportedAfterOneAdded ==
  /\ call.op = "import"
  /\ ret.err = "none"
  /\ Len(state.tasks) = 3
  /\ state.tasks[1].history[1].action = "created"
  /\ state.tasks[3].history[1].action = "imported"
  /\ state.nextId = 4

\* C24: when commands overlap, every add that reported 'Task added' still
\* has its task in the store afterwards, and no two stored tasks share an
\* id.
C24_ReportedTasksStayStored ==
  /\ \A t \in ret.reported :
       \E k \in 1..Len(state.tasks) : state.tasks[k] = t
  /\ \A j, k \in 1..Len(state.tasks) :
       j # k => state.tasks[j].id # state.tasks[k].id

\* C25: a command that ends with an error leaves the stored task list and
\* nextId exactly as they were before the command, also when the handler
\* had already changed fields of the task it read.
C25_FailedCommandLeavesStore ==
  [][ret'.err # "none" => state' = state]_vars

\* C25 reached: 'edit 1 --title X --priority bogus' failed on the priority
\* and task 1 has the title it had
C25_EditFailedAfterTitleAssigned ==
  /\ call.op = "edit"
  /\ Truthy(call.title)
  /\ call.priority = Some(<<"b","o","g","u","s">>)
  /\ ret.err = "InvalidPriority"
  /\ Len(state.tasks) > 0
  /\ state.tasks[1].id = 1
  /\ state.tasks[1].title # call.title.v

\* C26: after any sequence of config set, add, edit and import commands,
\* every stored task's priority is one of low, medium, high, urgent, and the
\* configured defaultPriority is one of these four values.
C26_PrioritiesAreTheFourLevels ==
  /\ config.defaultPriority \in Priorities
  /\ \A k \in 1..Len(state.tasks) : state.tasks[k].priority \in Priorities

\* C27: when add is given an explicit ISO date with --due, the command never
\* fails with an 'Ambiguous date' error and never asks for confirmation (so
\* it is never cancelled at the prompt), whatever the title holds, and the
\* task it stores has exactly that due date.
C27_ExplicitIsoDueNeverAmbiguous ==
  [][(call'.op = "add" /\ Truthy(call'.due) /\ IsCalendarDate(call'.due.v))
       => /\ ret'.err \notin {"AmbiguousDate", "Cancelled"}
          /\ ret'.err = "none"
               => state'.tasks[Len(state'.tasks)].due = call'.due]_vars

=============================================================================
